---- MODULE Spec2Model ----
(***************************************************************************)
(* State-transition core of the Space Invaders clone                       *)
(* (src/src/spaceinvaders.ts): the scan of reduceState over the merged     *)
(* event stream, starting from initialState.                               *)
(*                                                                         *)
(* Numbers.  Every length, speed and acceleration of the program is a      *)
(* multiple of 0.0001 (CONST.ALIEN.INITIAL.ACC), so a number n of the      *)
(* program is the integer n * U here.  The one irrational the program      *)
(* meets is Math.sin(Math.PI) = 1.2246e-16 in Vec.rotate(180): a           *)
(* coordinate is a pair (main part, residue), worth main/U + residue/U *   *)
(* sin(pi), and a sum or product whose main part is not zero rounds the    *)
(* residue away, as IEEE doubles do for the magnitudes of this program.    *)
(***************************************************************************)
EXTENDS Integers, Sequences, FiniteSets, TLC

U == 10000

(***************************************************************************)
(* CONST                                                                   *)
(***************************************************************************)
CANVAS_SIZE == 600 * U
START_TIME == 0
SHIP_DIMS == [width |-> 50 * U, height |-> 20 * U]
PLAYER_VEL == 5 * U
ALIEN_VEL == 5 * U
BULLET_DIMS == [width |-> 6 * U, height |-> 24 * U]
BULLET_HOLE_DIMS == [width |-> 25 * U, height |-> 25 * U]
SHIELD_DISTANCE_APART == 125 * U
SHIELD_DIMS == [width |-> 80 * U, height |-> 40 * U]
SHIELD_COUNT == 5
ALIEN_SPACING == 10 * U
ALIEN_SCORING == 10
ALIEN_DIMS == [width |-> 35 * U, height |-> 35 * U]
ALIEN_INITIAL_SPEED == 3000
ALIEN_INITIAL_ACC == 1
X_BOUNDS == [left |-> 50 * U, right |-> 500 * U]
MOVE_DIST == [x |-> 140 * U, y |-> 35 * U]
ROWS == 3
COLS == 8
UFO_DIMS == [width |-> 100 * U, height |-> 60 * U]
UFO_POINTS == 50
ALIEN_ACC_SCALE == 2
SHOOT_OFFSET == 30 * U
MOVE_SPEED == 3 * U

(***************************************************************************)
(* class Vec                                                               *)
(***************************************************************************)
Vec(x, y) == [x |-> x, y |-> y, rx |-> 0, ry |-> 0]

VecZero == Vec(0, 0)

\* a double whose main part is not zero absorbs a sin(pi)-sized residue
Fl(main, residue) == IF main # 0 THEN 0 ELSE residue

VecAdd(a, b) ==
    [x |-> a.x + b.x, y |-> a.y + b.y,
     rx |-> Fl(a.x + b.x, a.rx + b.rx), ry |-> Fl(a.y + b.y, a.ry + b.ry)]

VecScale(a, k) == [x |-> a.x * k, y |-> a.y * k, rx |-> a.rx * k, ry |-> a.ry * k]

VecSub(a, b) == VecAdd(a, VecScale(b, -1))

\* rotate(180): (x*cos - y*sin, x*sin + y*cos) with cos = -1 and sin = sin(pi)
VecRotate180(a) ==
    [x |-> -a.x, y |-> -a.y,
     rx |-> Fl(-a.x, -a.rx - a.y), ry |-> Fl(-a.y, a.x - a.ry)]

\* Math.sign of a coordinate
Sign(main, residue) ==
    IF main > 0 THEN 1 ELSE IF main < 0 THEN -1
    ELSE IF residue > 0 THEN 1 ELSE IF residue < 0 THEN -1 ELSE 0

SHIELD_INITIAL_POS == Vec(10 * U, 425 * U)
ALIEN_INITIAL_POS == Vec(50 * U, 50 * U)
UFO_INITIAL_POS == Vec(-50 * U, 50 * U)
UFO_INITIAL_VEL == Vec(2 * U, 0)

(***************************************************************************)
(* Local storage functions.  A value of the program that these functions   *)
(* compare is a record [type, val]; a Storage is [type |-> "object",       *)
(* items |-> for each key, {} or {the string stored under it}], and the    *)
(* absent storage object is undefined.  A string of the storage is the     *)
(* sequence of its characters; a number is [nan, n].                       *)
(***************************************************************************)
HIGH_SCORE_KEY == "SPACE_INVADERS_HI_SCORE"

undefined == [type |-> "undefined", val |-> "undefined"]

Keys == {HIGH_SCORE_KEY}

NoStorage == [type |-> "undefined", items |-> [key \in Keys |-> {}]]

\* a Storage that holds item ({} for nothing) under HIGH_SCORE_KEY
Storage(item) == [type |-> "object", items |-> [key \in Keys |-> item]]

\* typeof (local): a string, "undefined" or "object"
typeOf(local) == [type |-> "string", val |-> local.type]

\* a !== b: values of different types are never equal
StrictNotEqual(a, b) == a.type # b.type \/ a.val # b.val

Num(n) == [nan |-> FALSE, n |-> n]

NaN == [nan |-> TRUE, n |-> 0]

DigitChars == <<"0", "1", "2", "3", "4", "5", "6", "7", "8", "9">>

isDigit(ch) == \E d \in 1..10 : DigitChars[d] = ch

DigitOf(ch) == (CHOOSE d \in 1..10 : DigitChars[d] = ch) - 1

RECURSIVE DecimalValue(_)
\* the number a sequence of digits writes
DecimalValue(str) ==
    IF Len(str) = 0 THEN 0
    ELSE 10 * DecimalValue(SubSeq(str, 1, Len(str) - 1)) + DigitOf(str[Len(str)])

\* Number(v) for what getItem returns: null ({}) and "" give 0, a string of
\* digits its value, and a string with another character than a digit,
\* a sign, a point, an exponent or white space gives NaN
Number(got) ==
    IF got = {} THEN Num(0)
    ELSE LET str == CHOOSE v \in got : TRUE
         IN  IF \A k \in 1..Len(str) : isDigit(str[k]) THEN Num(DecimalValue(str))
             ELSE NaN

RECURSIVE String(_)
\* String(n) for an integer n >= 0
String(n) ==
    IF n < 10 THEN <<DigitChars[n + 1]>>
    ELSE String(n \div 10) \o <<DigitChars[(n % 10) + 1]>>

\* typeof (local) !== undefined: a string against the value undefined
isLocalStorage(local) == StrictNotEqual(typeOf(local), undefined)

\* the outcome of a call: what it returned and the storage it left, or threw
Returned(value, local) == [threw |-> FALSE, value |-> value, local |-> local]

\* a method called on undefined
TypeError(local) == [threw |-> TRUE, value |-> NaN, local |-> local]

\* local.getItem(key): null ({}) when nothing is stored
getItem(local, key) == local.items[key]

\* local.setItem(key, value)
setItem(local, key, value) == [local EXCEPT !.items[key] = {value}]

\* local.getItem of an undefined local throws before Number is called
getDataLocalStorage(local, key) ==
    IF isLocalStorage(local)
    THEN IF local.type = "undefined" THEN TypeError(local)
         ELSE Returned(Number(getItem(local, key)), local)
    ELSE Returned(Num(0), local)

\* the function returns nothing (value is 0 here)
updateLocalStorage(local, key, hiScore) ==
    IF isLocalStorage(local)
    THEN IF local.type = "undefined" THEN TypeError(local)
         ELSE Returned(Num(0), setItem(local, key, String(hiScore)))
    ELSE Returned(Num(0), local)

(***************************************************************************)
(* class RNG.  state is a double: the seed is Math.random(), a fraction,   *)
(* and int() keeps a fraction as long as a * state + c stays below 2^53.   *)
(* A number of the generator is written in base 2^16 (TLC's integers stop  *)
(* short of m = 0x80000000): a state 0 <= x < 2^31, multiple of 2^-48, is  *)
(* <<x1, x2, x3, x4, x5>>, worth x1*2^16 + x2 + x3/2^16 + x4/2^32 +        *)
(* x5/2^48, and a * state + c is seven digits <<w1, .., w7>>, w4 the units.*)
(* A product or a sum is rounded to the 53 significant bits of a double.   *)
(***************************************************************************)
RNG_a == 1103515245
RNG_c == 12345
RNG_mLess1 == 2147483647
W16 == 65536

\* the double of an integer 0 <= n < 2^31
Dbl(n) == <<n \div W16, n % W16, 0, 0, 0>>

\* Math.floor of a state
IntPart(x) == x[1] * W16 + x[2]

BitLen(h) == Cardinality({k \in 0..30 : 2^k <= h})

RECURSIVE Carry(_, _)
\* the digits k, k-1, .., 2 of w brought below 2^16, each carry added to the
\* digit on its left
Carry(w, k) ==
    IF k = 1 THEN w
    ELSE Carry([w EXCEPT ![k] = w[k] % W16, ![k - 1] = w[k - 1] + (w[k] \div W16)], k - 1)

\* the sum of two numbers of seven digits
AddDigits(u, v) == Carry([k \in 1..7 |-> u[k] + v[k]], 7)

\* al * state, and ah * 2^16 * state
TimesLow(al, state) ==
    Carry(<<0, 0, al * state[1], al * state[2], al * state[3],
            al * state[4], al * state[5]>>, 7)

TimesHigh(ah, state) ==
    Carry(<<0, ah * state[1], ah * state[2], ah * state[3],
            ah * state[4], ah * state[5], 0>>, 7)

\* a * state, exactly
WideMul(a, state) == AddDigits(TimesLow(a % W16, state), TimesHigh(a \div W16, state))

\* the bits of w from its digit k down, bit 0 being worth 2^-48
BitsFrom(w, k) == 16 * (7 - k) + BitLen(w[k])

\* the number of significant bits of w
Bits(w) ==
    LET nz == {k \in 1..7 : w[k] # 0}
    IN  IF nz = {} THEN 0
        ELSE BitsFrom(w, CHOOSE i \in nz : \A j \in nz : i <= j)

\* bit i of w
Bit(w, i) == (w[7 - (i \div 16)] \div (2^(i % 16))) % 2

\* round to nearest, ties to even: is w without its j low bits rounded up
RoundsUp(w, j) ==
    /\ Bit(w, j - 1) = 1
    /\ \/ Bit(w, j) = 1
       \/ \E i \in 0..(j - 2) : Bit(w, i) = 1

\* w with the digits after d and the r low bits of digit d set to 0, and one
\* unit of what is left added when up
CutAt(w, d, r, up) ==
    [k \in 1..7 |-> IF k > d THEN 0
                    ELSE IF k = d THEN w[k] - (w[k] % (2^r)) + (IF up THEN 2^r ELSE 0)
                    ELSE w[k]]

\* w without its j low bits, j > 0
DropBits(w, j) == Carry(CutAt(w, 7 - (j \div 16), j % 16, RoundsUp(w, j)), 7)

\* w, of bits significant bits, as a double
RoundTo53(w, bits) == IF bits > 53 THEN DropBits(w, bits - 53) ELSE w

\* a number rounded to the 53 significant bits of a double
Round53(w) == RoundTo53(w, Bits(w))

\* w + c for an integer c
AddUnits(w, c) == Carry([w EXCEPT ![4] = @ + c], 7)

\* w % m, m = 2^31
ModM(w) == <<w[3] % (W16 \div 2), w[4], w[5], w[6], w[7]>>

\* int(): (a * state + c) % m
RNGint(state) == ModM(Round53(AddUnits(Round53(WideMul(RNG_a, state)), RNG_c)))

\* y >= q + r / n, for a state y: the fraction of y is at least r / n when n
\* times it, floored, is at least r
AtLeastMixed(y, q, r, n) ==
    \/ IntPart(y) > q
    \/ /\ IntPart(y) = q
       /\ Carry(<<0, n * y[3], n * y[4], n * y[5]>>, 4)[1] >= r

\* y >= j * d / n, for integers 0 < j <= n < 2^16 and d < 2^31
AtLeast(y, j, d, n) ==
    AtLeastMixed(y, j * (d \div n) + ((j * (d % n)) \div n), (j * (d % n)) % n, n)

\* floor(n * y / d): the number of j in 1..n with y >= j * d / n
FloorMulDiv(n, y, d) == Cardinality({j \in 1..n : AtLeast(y, j, d, n)})

\* Math.floor(n * y / (m - 1)) for y = int().  int() is below m, not below
\* m - 1: from m - 1 on the quotient is at least 1 and the floor is n.  Below
\* m - 1 the floor is that of the exact quotient: the division and the product
\* round by less than 2^-52 of their value, which takes the product across an
\* integer only from a y within 2^-21 below a j * (m - 1) / n, and no integer
\* is (m - 1 is prime).
FloorTimes(n, y) ==
    IF IntPart(y) >= RNG_mLess1 THEN n ELSE FloorMulDiv(n, y, RNG_mLess1)

\* Math.floor(n * float()) with float() = int() / (m - 1)
FloorTimesFloat(n, state) == FloorTimes(n, RNGint(state))

\* next(): new RNG(this.int())
RNGnext(rng) == [state |-> RNGint(rng.state)]

(***************************************************************************)
(* Bodies.  An id is the string viewType + oId; it is the sequence         *)
(* <<viewType>> \o oId here, oId being <<n>> or, for null, <<>>.           *)
(***************************************************************************)
createBody(viewType, oId, time, dims, pos, vel, acc) ==
    [id |-> <<viewType>> \o oId, viewType |-> viewType, createTime |-> time,
     dims |-> dims, pos |-> pos, vel |-> vel, acc |-> acc]

createAlien(oId, pos, accMag) ==
    createBody("alien", oId, START_TIME, ALIEN_DIMS, pos,
               Vec(ALIEN_INITIAL_SPEED, 0), Vec(accMag, 0))

createShip ==
    createBody("ship", <<>>, START_TIME, SHIP_DIMS,
               Vec(CANVAS_SIZE \div 2 - SHIP_DIMS.width \div 2,
                   CANVAS_SIZE - 50 * U - SHIP_DIMS.height \div 2),
               VecZero, VecZero)

createShields ==
    [k \in 1..SHIELD_COUNT |->
        createBody("shield", <<k - 1>>, START_TIME, SHIELD_DIMS,
                   VecAdd(SHIELD_INITIAL_POS, Vec((k - 1) * SHIELD_DISTANCE_APART, 0)),
                   VecZero, VecZero)]

createAliens(alienAcc) ==
    [bodies |->
        [k \in 1..(ROWS * COLS) |->
            createAlien(<<k - 1>>,
                        VecAdd(ALIEN_INITIAL_POS,
                               Vec(((k - 1) % COLS) * (ALIEN_DIMS.width + ALIEN_SPACING),
                                   ((k - 1) \div COLS) * (ALIEN_DIMS.height + ALIEN_SPACING))),
                        alienAcc)],
     accMagnitude |-> alienAcc,
     movementPos |->
        [start |-> Vec(ALIEN_INITIAL_POS.x, 0),
         current |-> createAlien(<<>>, Vec(ALIEN_INITIAL_POS.x, 0), ALIEN_INITIAL_ACC)]]

(***************************************************************************)
(* Array helpers                                                           *)
(***************************************************************************)
\* Mutation of sameId for C32: any two bodies pass for the same one
sameId_always(a, b) == TRUE

sameId(a, b) == a.id = b.id

isViewType(v, o) == v = o.viewType

\* elem(sameId)(a)(e)
elem(a, e) == \E k \in 1..Len(a) : sameId(e, a[k])

\* Mutation of except for C31: nothing is removed
except_nothing(a, b) == a

\* except(sameId)(a)(b): the elements of a whose id is not in b
except(a, b) == SelectSeq(a, LAMBDA e : ~elem(b, e))

\* flatMap(aArr, a => bArr.map(b => [a, b])): the pairs, a first
flatMapPairs(aArr, bArr) ==
    [k \in 1..(Len(aArr) * Len(bArr)) |->
        <<aArr[((k - 1) \div Len(bArr)) + 1], bArr[((k - 1) % Len(bArr)) + 1]>>]

(***************************************************************************)
(* State                                                                   *)
(***************************************************************************)
initialState(hiScore, seed) ==
    [time |-> START_TIME, score |-> 0, hiScore |-> hiScore, gameOver |-> FALSE,
     ship |-> createShip, bullets |-> <<>>, exit |-> <<>>, shields |-> createShields,
     holes |-> <<>>, aliens |-> createAliens(ALIEN_INITIAL_ACC), ufo |-> <<>>,
     objCount |-> ROWS * COLS, rng |-> [state |-> seed]]

\* Mutation of renewState for C2: the difficulty is scaled on a reset too
renewState_keepDifficulty(s, resetState) ==
    [s EXCEPT !.ship = createShip,
              !.time = START_TIME,
              !.score = IF resetState THEN 0 ELSE s.score,
              !.gameOver = FALSE,
              !.bullets = <<>>,
              !.exit = s.bullets \o s.holes \o s.ufo \o <<s.aliens>>,
              !.holes = <<>>,
              !.aliens = createAliens(ALIEN_ACC_SCALE * s.aliens.accMagnitude),
              !.ufo = <<>>,
              !.objCount = s.objCount + ROWS * COLS,
              !.rng = RNGnext(s.rng)]

\* Mutation of renewState for C5: the score is reset on a new level too
renewState_zeroScore(s, resetState) ==
    [s EXCEPT !.ship = createShip,
              !.time = START_TIME,
              !.score = 0,
              !.gameOver = FALSE,
              !.bullets = <<>>,
              !.exit = s.bullets \o s.holes \o s.ufo \o <<s.aliens>>,
              !.holes = <<>>,
              !.aliens = createAliens(IF resetState THEN ALIEN_INITIAL_ACC
                                      ELSE ALIEN_ACC_SCALE * s.aliens.accMagnitude),
              !.ufo = <<>>,
              !.objCount = s.objCount + ROWS * COLS,
              !.rng = RNGnext(s.rng)]

\* [].concat(s.bullets, s.holes, s.ufo, s.aliens): s.aliens is no array, so
\* concat appends the AliensInfo object itself as one element
renewState(s, resetState) ==
    LET alienAcc == IF resetState THEN ALIEN_INITIAL_ACC
                    ELSE ALIEN_ACC_SCALE * s.aliens.accMagnitude
    IN  [s EXCEPT !.ship = createShip,
                  !.time = START_TIME,
                  !.score = IF resetState THEN 0 ELSE s.score,
                  !.gameOver = FALSE,
                  !.bullets = <<>>,
                  !.exit = s.bullets \o s.holes \o s.ufo \o <<s.aliens>>,
                  !.holes = <<>>,
                  !.aliens = createAliens(alienAcc),
                  !.ufo = <<>>,
                  !.objCount = s.objCount + ROWS * COLS,
                  !.rng = RNGnext(s.rng)]

(***************************************************************************)
(* Physics                                                                 *)
(***************************************************************************)
\* Mutation of inBounds for C37: nothing is ever outside the canvas
inBounds_always(o) == TRUE

\* Mutation of inBounds for C33: the edges of the canvas count as inside
inBounds_closed(o) ==
    LET bound(v) == v >= 0 /\ v <= CANVAS_SIZE
    IN  /\ bound(o.pos.x) /\ bound(o.pos.x + o.dims.width)
        /\ bound(o.pos.y) /\ bound(o.pos.y + o.dims.height)

inBounds(o) ==
    LET bound(v) == v > 0 /\ v < CANVAS_SIZE
    IN  /\ bound(o.pos.x) /\ bound(o.pos.x + o.dims.width)
        /\ bound(o.pos.y) /\ bound(o.pos.y + o.dims.height)

\* Mutation of moveBody for C29: the velocity is not advanced
moveBody_constantVel(o) == [o EXCEPT !.pos = VecAdd(o.pos, o.vel)]

moveBody(o) == [o EXCEPT !.pos = VecAdd(o.pos, o.vel), !.vel = VecAdd(o.vel, o.acc)]

\* .map(moveBody)
moveBodies(a) == [k \in 1..Len(a) |-> moveBody(a[k])] \o <<>>

stopBody(o) == [o EXCEPT !.pos = VecSub(o.pos, o.vel), !.vel = VecZero]

\* Mutation of shiftAlienDown for C28: the acceleration keeps its direction
shiftAlienDown_keepAcc(a) ==
    [a EXCEPT !.pos = VecAdd(a.pos, Vec(0, MOVE_DIST.y)),
              !.vel = VecRotate180(a.vel)]

\* Mutation of shiftAlienDown for C38: the formation turns without coming down
shiftAlienDown_level(a) ==
    [a EXCEPT !.vel = VecRotate180(a.vel),
              !.acc = VecRotate180(a.acc)]

shiftAlienDown(a) ==
    [a EXCEPT !.pos = VecAdd(a.pos, Vec(0, MOVE_DIST.y)),
              !.vel = VecRotate180(a.vel),
              !.acc = VecRotate180(a.acc)]

aliensTopRightPosX ==
    X_BOUNDS.right - (COLS * ALIEN_DIMS.width + (COLS - 1) * ALIEN_SPACING)

moveAliens(a) ==
    LET cur == a.movementPos.current
        leftBound == cur.pos.x <= a.movementPos.start.x - aliensTopRightPosX
        rightBound == cur.pos.x >= a.movementPos.start.x + aliensTopRightPosX
        outOfBounds == leftBound \/ rightBound
        shiftLeft == IF rightBound
                     THEN (cur.pos.x + aliensTopRightPosX * 2) - X_BOUNDS.right ELSE 0
        shiftRight == IF leftBound THEN cur.pos.x - X_BOUNDS.left ELSE 0
        shiftAlienX(b) == [b EXCEPT !.pos = VecAdd(b.pos, Vec(shiftLeft + shiftRight, 0))]
        shiftBoth(b) == shiftAlienDown(shiftAlienX(b))
    IN  [a EXCEPT
           !.bodies = IF outOfBounds
                      THEN [k \in 1..Len(a.bodies) |-> shiftBoth(a.bodies[k])] \o <<>>
                      ELSE moveBodies(a.bodies),
           !.movementPos = IF outOfBounds
                           THEN [start |-> cur.pos, current |-> shiftBoth(cur)]
                           ELSE [a.movementPos EXCEPT !.current = moveBody(cur)]]

\* Mutation of bodiesCollided for C20: bodies that only touch do not collide
bodiesCollided_open(pair) ==
    LET a == pair[1]
        b == pair[2]
    IN  /\ a.pos.x + a.dims.width > b.pos.x
        /\ a.pos.x < b.pos.x + b.dims.width
        /\ a.pos.y + a.dims.height > b.pos.y
        /\ a.pos.y < b.pos.y + b.dims.height

bodiesCollided(pair) ==
    LET a == pair[1]
        b == pair[2]
    IN  /\ a.pos.x + a.dims.width >= b.pos.x
        /\ a.pos.x <= b.pos.x + b.dims.width
        /\ a.pos.y + a.dims.height >= b.pos.y
        /\ a.pos.y <= b.pos.y + b.dims.height

\* collidedBodies(bodiesCollided): the pairs that collide
checkCollision(aArr, bArr) == SelectSeq(flatMapPairs(aArr, bArr), bodiesCollided)

\* .map(([b, _]) => b)
Firsts(pairs) == [k \in 1..Len(pairs) |-> pairs[k][1]] \o <<>>

\* .map(([_, a]) => a)
Seconds(pairs) == [k \in 1..Len(pairs) |-> pairs[k][2]] \o <<>>

\* Mutation of isPlayerBullet for C30: the bullets of the aliens count too
isPlayerBullet_anyBullet(o) == isViewType("bulletPlayer", o) \/ isViewType("bulletAlien", o)

isPlayerBullet(o) == isViewType("bulletPlayer", o)

\* Mutation of newHiScore for C6: the high score is never raised
newHiScore_stale(newScore, hiScore) == hiScore

\* hiScore: newScore > s.hiScore ? newScore : s.hiScore
newHiScore(newScore, hiScore) == IF newScore > hiScore THEN newScore ELSE hiScore

handleCollisions(s) ==
    LET shipCollided ==
            Len(SelectSeq(s.bullets, LAMBDA b : bodiesCollided(<<s.ship, b>>))) > 0
        collidedBulletsFromShields == Firsts(checkCollision(s.bullets, s.shields))
        collidedBulletsFromHoles ==
            Firsts(checkCollision(collidedBulletsFromShields, s.holes))
        expiredBulletsFromShields ==
            except(collidedBulletsFromShields, collidedBulletsFromHoles)
        playerBullets == SelectSeq(s.bullets, isPlayerBullet)
        collidedPlayerBulletsAndAliens == checkCollision(playerBullets, s.aliens.bodies)
        expiredBulletsFromAliens == Firsts(collidedPlayerBulletsAndAliens)
        expiredAliens == Seconds(collidedPlayerBulletsAndAliens)
        remainingAliens == SelectSeq(s.aliens.bodies, LAMBDA a : ~elem(expiredAliens, a))
        expiredBulletsWithBullets ==
            Firsts(SelectSeq(checkCollision(s.bullets, s.bullets),
                                 LAMBDA p : ~sameId(p[1], p[2])))
        collidedPlayerBulletsAndUfo == checkCollision(playerBullets, s.ufo)
        expiredBulletsFromUfo == Firsts(collidedPlayerBulletsAndUfo)
        expiredUfos == Seconds(collidedPlayerBulletsAndUfo)
        remainingUfos == SelectSeq(s.ufo, LAMBDA u : ~elem(expiredUfos, u))
        holesBullets ==
            [k \in 1..Len(expiredBulletsFromShields) |->
                LET b == expiredBulletsFromShields[k]
                IN  createBody("hole", <<s.objCount + (k - 1)>>, s.time, BULLET_HOLE_DIMS,
                        VecAdd(b.pos,
                               Vec(b.dims.width \div 2 - BULLET_HOLE_DIMS.width \div 2,
                                   IF Sign(b.vel.y, b.vel.ry) > 0
                                   THEN BULLET_HOLE_DIMS.height - BULLET_HOLE_DIMS.height \div 2
                                   ELSE 0)),
                        VecZero, VecZero)]
        expiredBullets == expiredBulletsFromShields \o expiredBulletsFromAliens
                          \o expiredBulletsWithBullets \o expiredBulletsFromUfo
        currentHoleCount == Len(holesBullets)
        newScore == s.score + ALIEN_SCORING * Len(collidedPlayerBulletsAndAliens)
                    + UFO_POINTS * Len(expiredUfos)
    IN  [s EXCEPT
           !.score = newScore,
           !.hiScore = newHiScore(newScore, s.hiScore),
           !.bullets = except(except(except(s.bullets, expiredBulletsFromShields),
                                     expiredBulletsFromAliens),
                              expiredBulletsWithBullets),
           !.exit = s.exit \o expiredAliens \o expiredBullets \o expiredUfos,
           !.holes = s.holes \o holesBullets,
           !.aliens = [s.aliens EXCEPT !.bodies = remainingAliens],
           !.ufo = remainingUfos,
           !.objCount = s.objCount + currentHoleCount,
           !.gameOver = s.gameOver \/ shipCollided]

notInBounds(o) == ~inBounds(o)

tick(s, elapsed) ==
    LET activeBullets == SelectSeq(s.bullets, inBounds)
        expiredBullets == SelectSeq(s.bullets, notInBounds)
        alienInvaded == Len(SelectSeq(s.aliens.bodies, notInBounds)) > 0
        exitLeft(o) == o.pos.x < CANVAS_SIZE + o.dims.width
        activeUfos == SelectSeq(s.ufo, exitLeft)
        expiredUfos == except(s.ufo, activeUfos)
    IN  handleCollisions(
            [s EXCEPT
               !.ship = IF inBounds(s.ship) THEN moveBody(s.ship) ELSE stopBody(s.ship),
               !.bullets = moveBodies(activeBullets),
               !.exit = s.exit \o expiredBullets \o expiredUfos,
               !.aliens = moveAliens(s.aliens),
               !.ufo = moveBodies(activeUfos),
               !.time = elapsed,
               !.gameOver = alienInvaded])

\* Math.floor(s.aliens.bodies.length * s.rng.float())
attackerIndex(s) == FloorTimesFloat(Len(s.aliens.bodies), s.rng.state)

\* Mutation of alienShoot for C9: objCount is not incremented
alienShoot_sameCount(s) ==
    LET attacker == s.aliens.bodies[attackerIndex(s) + 1]
    IN  [s EXCEPT
           !.bullets = s.bullets \o
               <<createBody("bulletAlien", <<s.objCount>>, s.time, BULLET_DIMS,
                            VecAdd(attacker.pos,
                                   Vec(attacker.dims.width \div 2 - BULLET_DIMS.width \div 2,
                                       attacker.dims.height)),
                            Vec(0, ALIEN_VEL), VecZero)>>,
           !.rng = RNGnext(s.rng)]

\* s.aliens.bodies[attackerIndex] is undefined when the index is the length:
\* attacker.pos then throws a TypeError (see AlienShootEv)
alienShoot(s) ==
    LET attacker == s.aliens.bodies[attackerIndex(s) + 1]
    IN  [s EXCEPT
           !.bullets = s.bullets \o
               <<createBody("bulletAlien", <<s.objCount>>, s.time, BULLET_DIMS,
                            VecAdd(attacker.pos,
                                   Vec(attacker.dims.width \div 2 - BULLET_DIMS.width \div 2,
                                       attacker.dims.height)),
                            Vec(0, ALIEN_VEL), VecZero)>>,
           !.objCount = s.objCount + 1,
           !.rng = RNGnext(s.rng)]

\* Mutation of hasPlayerBullet for C36: only the first bullet is looked at
hasPlayerBullet_first(s) == Len(s.bullets) > 0 /\ s.bullets[1].viewType = "bulletPlayer"

hasPlayerBullet(s) == \E k \in 1..Len(s.bullets) : s.bullets[k].viewType = "bulletPlayer"

\* the player's bullet as the Shoot branch of reduceState creates it
playerBullet(s, vel) ==
    createBody("bulletPlayer", <<s.objCount>>, s.time, BULLET_DIMS,
               VecAdd(s.ship.pos,
                      Vec(s.ship.dims.width \div 2 - BULLET_DIMS.width \div 2, -SHOOT_OFFSET)),
               vel, VecZero)

\* Mutation of shoot for C7: a bullet is shot while one is in flight
shoot_always(s) ==
    [s EXCEPT !.bullets = s.bullets \o <<playerBullet(s, VecRotate180(Vec(0, PLAYER_VEL)))>>,
              !.objCount = s.objCount + 1]

\* Mutation of shoot for C8: the velocity is not rotated, the bullet goes down
shoot_notRotated(s) ==
    IF ~hasPlayerBullet(s)
    THEN [s EXCEPT !.bullets = s.bullets \o <<playerBullet(s, Vec(0, PLAYER_VEL))>>,
                   !.objCount = s.objCount + 1]
    ELSE s

\* the Shoot branch of reduceState
shoot(s) ==
    IF ~hasPlayerBullet(s)
    THEN [s EXCEPT !.bullets = s.bullets \o <<playerBullet(s, VecRotate180(Vec(0, PLAYER_VEL)))>>,
                   !.objCount = s.objCount + 1]
    ELSE s

\* Mutation of ufoSpawn for C19: the UFO takes its id without objCount moving on
ufoSpawn_sameCount(s) ==
    [s EXCEPT
       !.ufo = s.ufo \o
           <<createBody("ufo", <<s.objCount>>, s.time, UFO_DIMS,
                        UFO_INITIAL_POS, UFO_INITIAL_VEL, VecZero)>>]

\* the UfoSpawn branch of reduceState
ufoSpawn(s) ==
    [s EXCEPT
       !.ufo = s.ufo \o
           <<createBody("ufo", <<s.objCount>>, s.time, UFO_DIMS,
                        UFO_INITIAL_POS, UFO_INITIAL_VEL, VecZero)>>,
       !.objCount = s.objCount + 1]

\* Mutation of play for C16: a Move displaces the ship at once
play_moveDisplaces(s, e) ==
    IF e.kind = "Move"
    THEN [s EXCEPT !.ship.vel = Vec(e.direction, 0),
                   !.ship.pos = VecAdd(s.ship.pos, Vec(e.direction, 0))]
    ELSE IF e.kind = "Shoot" THEN shoot(s)
    ELSE IF e.kind = "AlienShoot" THEN alienShoot(s)
    ELSE IF e.kind = "UfoSpawn" THEN ufoSpawn(s)
    ELSE tick(s, e.elapsed)

\* the branches of reduceState for a game that is on: Move, Shoot, AlienShoot,
\* UfoSpawn and, last, Tick
play(s, e) ==
    IF e.kind = "Move" THEN [s EXCEPT !.ship.vel = Vec(e.direction, 0)]
    ELSE IF e.kind = "Shoot" THEN shoot(s)
    ELSE IF e.kind = "AlienShoot" THEN alienShoot(s)
    ELSE IF e.kind = "UfoSpawn" THEN ufoSpawn(s)
    ELSE tick(s, e.elapsed)

\* Mutation of reduceState for C1: Restart is tested before the empty formation
reduceState_restartFirst(s, e) ==
    IF e.kind = "Restart" THEN renewState(s, TRUE)
    ELSE IF Len(s.aliens.bodies) = 0 THEN renewState(s, FALSE)
    ELSE IF s.gameOver THEN s
    ELSE play(s, e)

\* Mutation of reduceState for C3: Move is handled before gameOver is tested
reduceState_moveWhenOver(s, e) ==
    IF Len(s.aliens.bodies) = 0 THEN renewState(s, FALSE)
    ELSE IF e.kind = "Restart" THEN renewState(s, TRUE)
    ELSE IF e.kind = "Move" THEN [s EXCEPT !.ship.vel = Vec(e.direction, 0)]
    ELSE IF s.gameOver THEN s
    ELSE play(s, e)

\* Mutation of reduceState for C4: gameOver is not tested
reduceState_noFreeze(s, e) ==
    IF Len(s.aliens.bodies) = 0 THEN renewState(s, FALSE)
    ELSE IF e.kind = "Restart" THEN renewState(s, TRUE)
    ELSE play(s, e)

\* an event is [kind |-> "Tick", elapsed |-> n], [kind |-> "Move", direction |-> d]
\* or [kind |-> k] for the classes without fields
reduceState(s, e) ==
    IF Len(s.aliens.bodies) = 0 THEN renewState(s, FALSE)
    ELSE IF e.kind = "Restart" THEN renewState(s, TRUE)
    ELSE IF s.gameOver THEN s
    ELSE play(s, e)

(***************************************************************************)
(* updateView.  The document is the set of the elements that the groups    *)
(* of the canvas hold: an element is its id and the id of the group it was *)
(* appended to (its x and y are attributes and are left out).  The page    *)
(* has one group per viewType: the create functions take it with           *)
(* document.getElementById(..)! and append to it.                          *)
(***************************************************************************)
Groups == {"hole", "bulletPlayer", "bulletAlien", "alien", "ufo"}

\* the canvas as the page loads it: no body has an element yet
emptyCanvas == {}

\* document.getElementById(id): the set of the elements found (none or one)
getElementById(document, id) == { v \in document : v.id = id }

\* .forEach(o => updateBodyView(o)(createRectBodyView)): an element is
\* created in the group of o.viewType unless the document has one with o.id
rectBodyViews(document, bodies) ==
    document \cup
        { [id |-> bodies[k].id, parent |-> bodies[k].viewType] :
            k \in { j \in 1..Len(bodies) : getElementById(document, bodies[j].id) = {} } }

\* the same with createAlienView or createUfoView, which name their group
imageBodyViews(document, bodies, group) ==
    document \cup
        { [id |-> bodies[k].id, parent |-> group] :
            k \in { j \in 1..Len(bodies) : getElementById(document, bodies[j].id) = {} } }

\* the elements that s.exit.map(..).filter(..).forEach(removeChild) removes:
\* o.viewType names a group (it is undefined for the AliensInfo object that
\* renewState puts in exit), o.id names an element, and the element is a
\* child of that group; removeChild throws otherwise, which is caught
removedViews(document, exit) ==
    { v \in document :
        \E k \in 1..Len(exit) :
            /\ "viewType" \in DOMAIN exit[k]
            /\ exit[k].viewType \in Groups
            /\ v.id = exit[k].id
            /\ v.parent = exit[k].viewType }

removeViews(document, exit) == document \ removedViews(document, exit)

\* the document after updateView(st)
updateView(document, st) ==
    removeViews(
        imageBodyViews(
            imageBodyViews(
                rectBodyViews(rectBodyViews(document, st.holes), st.bullets),
                st.aliens.bodies, "alien"),
            st.ufo, "ufo"),
        st.exit)

(***************************************************************************)
(* The event stream: merge(gameClock$, restart$, ...).pipe(scan(reduceState, *)
(* initialState)).  gameClock$ = interval(10) numbers its Ticks 0, 1, 2, .. *)
(***************************************************************************)
TickEvent(n) == [kind |-> "Tick", elapsed |-> n]

MoveEvent(d) == [kind |-> "Move", direction |-> d]

Event(k) == [kind |-> k]

\* one event reduced into g = [s |-> State, clock |-> the next Tick's number,
\* view |-> the document]; arg is the direction of a Move
reduced(g, kind, arg) ==
    IF kind = "Tick"
    THEN [g EXCEPT !.s = reduceState(g.s, TickEvent(g.clock)), !.clock = g.clock + 1]
    ELSE IF kind = "Move"
    THEN [g EXCEPT !.s = reduceState(g.s, MoveEvent(arg))]
    ELSE [g EXCEPT !.s = reduceState(g.s, Event(kind))]

\* .subscribe(updateView): the new accumulator is rendered
rendered(g) == [g EXCEPT !.view = updateView(g.view, g.s)]

\* one event folded into g: reduced, then rendered
fold(g, kind, arg) == rendered(reduced(g, kind, arg))

RECURSIVE foldN(_, _, _, _)
\* the same event n times (clock is never negative: the test only makes the
\* first half's state a value before the second half is folded)
foldN(g, kind, arg, n) ==
    IF n = 0 THEN g
    ELSE IF n = 1 THEN fold(g, kind, arg)
    ELSE LET h == foldN(g, kind, arg, n \div 2)
         IN  IF h.clock >= 0 THEN foldN(h, kind, arg, n - n \div 2) ELSE h

RECURSIVE scanRange(_, _, _, _)
\* the items lo..hi of a script folded into g, a half at a time
scanRange(g, script, lo, hi) ==
    IF lo > hi THEN g
    ELSE IF lo = hi THEN foldN(g, script[lo][1], script[lo][2], script[lo][3])
    ELSE LET mid == (lo + hi) \div 2
             h == scanRange(g, script, lo, mid)
         IN  IF h.clock >= 0 THEN scanRange(h, script, mid + 1, hi) ELSE h

\* a run of the stream: script is a sequence of <<kind, arg, n>>
scan(g, script) == scanRange(g, script, 1, Len(script))

Start(hiScore, seed) == [s |-> initialState(hiScore, seed), clock |-> 0, view |-> emptyCanvas]

(***************************************************************************)
(* Runs of the stream that the checked behaviours start from.  Each is a   *)
(* scan of reduceState from initialState, so each state below is one the   *)
(* program reaches.  PREV_HI_SCORE is what localStorage holds (0 when      *)
(* nothing is stored); RNG_SEEDS.SHOOTER is Math.random(): 0 or SmallSeed. *)
(***************************************************************************)
\* a player who clears the first level from the gaps between the shields,
\* up to the 3372nd Tick: two aliens are left and a player bullet is in flight
ClearScript ==
    <<<<"Move", -MOVE_SPEED, 1>>, <<"Tick", 0, 15>>, <<"Move", 0, 1>>,
      <<"Shoot", 0, 1>>, <<"Tick", 0, 67>>, <<"Shoot", 0, 1>>, <<"Tick", 0, 67>>,
      <<"Shoot", 0, 1>>, <<"Tick", 0, 76>>, <<"Shoot", 0, 1>>, <<"Tick", 0, 67>>,
      <<"Shoot", 0, 1>>, <<"Tick", 0, 76>>, <<"Shoot", 0, 1>>, <<"Tick", 0, 67>>,
      <<"Shoot", 0, 1>>, <<"Tick", 0, 69>>, <<"Shoot", 0, 1>>, <<"Tick", 0, 91>>,
      <<"Shoot", 0, 1>>, <<"Tick", 0, 120>>, <<"Shoot", 0, 1>>, <<"Tick", 0, 89>>,
      <<"Shoot", 0, 1>>, <<"Tick", 0, 69>>, <<"Move", -MOVE_SPEED, 1>>,
      <<"Tick", 0, 48>>, <<"Move", 0, 1>>, <<"Shoot", 0, 1>>, <<"Tick", 0, 53>>,
      <<"Shoot", 0, 1>>, <<"Tick", 0, 62>>, <<"Move", MOVE_SPEED, 1>>,
      <<"Tick", 0, 48>>, <<"Move", 0, 1>>, <<"Move", -MOVE_SPEED, 1>>,
      <<"Tick", 0, 48>>, <<"Move", 0, 1>>, <<"Move", MOVE_SPEED, 1>>,
      <<"Tick", 0, 48>>, <<"Move", 0, 1>>, <<"Shoot", 0, 1>>, <<"Tick", 0, 68>>,
      <<"Move", -MOVE_SPEED, 1>>, <<"Tick", 0, 48>>, <<"Move", 0, 1>>,
      <<"Tick", 0, 78>>, <<"Shoot", 0, 1>>, <<"Tick", 0, 1101>>,
      <<"Move", MOVE_SPEED, 1>>, <<"Tick", 0, 135>>, <<"Move", 0, 1>>,
      <<"Tick", 0, 14>>, <<"Move", -MOVE_SPEED, 1>>, <<"Tick", 0, 42>>,
      <<"Move", 0, 1>>, <<"Tick", 0, 1>>, <<"Move", MOVE_SPEED, 1>>, <<"Tick", 0, 42>>,
      <<"Move", 0, 1>>, <<"Move", -MOVE_SPEED, 1>>, <<"Tick", 0, 42>>,
      <<"Move", 0, 1>>, <<"Tick", 0, 1>>, <<"Move", MOVE_SPEED, 1>>, <<"Tick", 0, 42>>,
      <<"Move", 0, 1>>, <<"Move", -MOVE_SPEED, 1>>, <<"Tick", 0, 42>>,
      <<"Move", 0, 1>>, <<"Tick", 0, 1>>, <<"Move", MOVE_SPEED, 1>>, <<"Tick", 0, 42>>,
      <<"Move", 0, 1>>, <<"Move", -MOVE_SPEED, 1>>, <<"Tick", 0, 42>>,
      <<"Move", 0, 1>>, <<"Tick", 0, 1>>, <<"Move", MOVE_SPEED, 1>>, <<"Tick", 0, 42>>,
      <<"Move", 0, 1>>, <<"Move", -MOVE_SPEED, 1>>, <<"Tick", 0, 42>>,
      <<"Move", 0, 1>>, <<"Move", MOVE_SPEED, 1>>, <<"Tick", 0, 42>>, <<"Move", 0, 1>>,
      <<"Shoot", 0, 1>>, <<"Tick", 0, 4>>, <<"Move", -MOVE_SPEED, 1>>,
      <<"Tick", 0, 42>>, <<"Move", 0, 1>>, <<"Shoot", 0, 1>>, <<"Tick", 0, 41>>,
      <<"Shoot", 0, 1>>, <<"Tick", 0, 9>>, <<"Shoot", 0, 1>>, <<"Tick", 0, 59>>,
      <<"Shoot", 0, 1>>, <<"Tick", 0, 40>>, <<"Shoot", 0, 1>>, <<"Tick", 0, 44>>,
      <<"Shoot", 0, 1>>, <<"Tick", 0, 71>>, <<"Shoot", 0, 1>>, <<"Tick", 0, 14>>>>

\* one Tick before the player's bullet kills the last alien
LastKillScript ==
    ClearScript \o <<<<"Tick", 0, 12>>, <<"Shoot", 0, 1>>, <<"Tick", 0, 5>>>>

\* the same, with an alien bullet that reaches the ship on that very Tick
LastKillOverScript ==
    ClearScript \o <<<<"Tick", 0, 1>>, <<"AlienShoot", 0, 1>>, <<"Tick", 0, 11>>,
                     <<"Shoot", 0, 1>>, <<"Tick", 0, 5>>>>

\* the second level played to its end, from the Tick that renews the state
\* after the last kill of LastKillScript: 3466 Ticks, the last of which kills
\* the last alien of the level
Level2Script ==
    <<<<"Move", -MOVE_SPEED, 1>>, <<"Tick", 0, 15>>, <<"Move", 0, 1>>,
      <<"Shoot", 0, 1>>, <<"Tick", 0, 67>>, <<"Shoot", 0, 1>>,
      <<"Tick", 0, 67>>, <<"Shoot", 0, 1>>, <<"Tick", 0, 76>>,
      <<"Shoot", 0, 1>>, <<"Tick", 0, 67>>, <<"Shoot", 0, 1>>,
      <<"Tick", 0, 71>>, <<"Shoot", 0, 1>>, <<"Tick", 0, 76>>,
      <<"Shoot", 0, 1>>, <<"Tick", 0, 78>>, <<"Shoot", 0, 1>>,
      <<"Tick", 0, 69>>, <<"Shoot", 0, 1>>, <<"Tick", 0, 78>>,
      <<"Shoot", 0, 1>>, <<"Tick", 0, 78>>, <<"Shoot", 0, 1>>,
      <<"Tick", 0, 69>>, <<"Shoot", 0, 1>>, <<"Tick", 0, 74>>,
      <<"Move", -MOVE_SPEED, 1>>, <<"Tick", 0, 48>>, <<"Move", 0, 1>>,
      <<"Shoot", 0, 1>>, <<"Tick", 0, 53>>, <<"Move", MOVE_SPEED, 1>>,
      <<"Tick", 0, 48>>, <<"Move", 0, 1>>, <<"Move", -MOVE_SPEED, 1>>,
      <<"Tick", 0, 48>>, <<"Move", 0, 1>>, <<"Move", MOVE_SPEED, 1>>,
      <<"Tick", 0, 48>>, <<"Move", 0, 1>>, <<"Move", -MOVE_SPEED, 1>>,
      <<"Tick", 0, 48>>, <<"Move", 0, 1>>, <<"Move", MOVE_SPEED, 1>>,
      <<"Tick", 0, 48>>, <<"Move", 0, 1>>, <<"Move", -MOVE_SPEED, 1>>,
      <<"Tick", 0, 48>>, <<"Move", 0, 1>>, <<"Move", MOVE_SPEED, 1>>,
      <<"Tick", 0, 48>>, <<"Move", 0, 1>>, <<"Tick", 0, 1>>,
      <<"Move", -MOVE_SPEED, 1>>, <<"Tick", 0, 48>>, <<"Move", 0, 1>>,
      <<"Shoot", 0, 1>>, <<"Tick", 0, 70>>, <<"Shoot", 0, 1>>,
      <<"Tick", 0, 55>>, <<"Move", MOVE_SPEED, 1>>, <<"Tick", 0, 48>>,
      <<"Move", 0, 1>>, <<"Shoot", 0, 1>>, <<"Tick", 0, 582>>,
      <<"Shoot", 0, 1>>, <<"Tick", 0, 61>>, <<"Shoot", 0, 1>>,
      <<"Tick", 0, 336>>, <<"Move", MOVE_SPEED, 1>>, <<"Tick", 0, 87>>,
      <<"Move", 0, 1>>, <<"Tick", 0, 85>>, <<"Move", -MOVE_SPEED, 1>>,
      <<"Tick", 0, 42>>, <<"Move", 0, 1>>, <<"Tick", 0, 1>>,
      <<"Move", MOVE_SPEED, 1>>, <<"Tick", 0, 42>>, <<"Move", 0, 1>>,
      <<"Move", -MOVE_SPEED, 1>>, <<"Tick", 0, 42>>, <<"Move", 0, 1>>,
      <<"Tick", 0, 1>>, <<"Move", MOVE_SPEED, 1>>, <<"Tick", 0, 42>>,
      <<"Move", 0, 1>>, <<"Move", -MOVE_SPEED, 1>>, <<"Tick", 0, 42>>,
      <<"Move", 0, 1>>, <<"Move", MOVE_SPEED, 1>>, <<"Tick", 0, 42>>,
      <<"Move", 0, 1>>, <<"Tick", 0, 56>>, <<"Shoot", 0, 1>>, <<"Tick", 0, 9>>,
      <<"Shoot", 0, 1>>, <<"Tick", 0, 25>>, <<"Shoot", 0, 1>>,
      <<"Tick", 0, 131>>, <<"Move", -MOVE_SPEED, 1>>, <<"Tick", 0, 42>>,
      <<"Move", 0, 1>>, <<"Tick", 0, 1>>, <<"Move", MOVE_SPEED, 1>>,
      <<"Tick", 0, 42>>, <<"Move", 0, 1>>, <<"Move", -MOVE_SPEED, 1>>,
      <<"Tick", 0, 42>>, <<"Move", 0, 1>>, <<"Tick", 0, 1>>,
      <<"Move", MOVE_SPEED, 1>>, <<"Tick", 0, 42>>, <<"Move", 0, 1>>,
      <<"Move", -MOVE_SPEED, 1>>, <<"Tick", 0, 42>>, <<"Move", 0, 1>>,
      <<"Move", MOVE_SPEED, 1>>, <<"Tick", 0, 42>>, <<"Move", 0, 1>>,
      <<"Shoot", 0, 1>>, <<"Tick", 0, 23>>, <<"Shoot", 0, 1>>,
      <<"Tick", 0, 19>>>>

\* the two levels cleared, and the Tick that starts the third
ToLevel3Script == LastKillScript \o <<<<"Tick", 0, 2>>>> \o Level2Script \o <<<<"Tick", 0, 1>>>>

\* one Tick before an alien bullet grazes the ship's left edge
ShipHitScript == ClearScript \o <<<<"AlienShoot", 0, 1>>, <<"Tick", 0, 16>>>>

\* one Tick before the first kill
FirstKillScript ==
    <<<<"Move", -MOVE_SPEED, 1>>, <<"Tick", 0, 15>>, <<"Move", 0, 1>>,
      <<"Shoot", 0, 1>>, <<"Tick", 0, 66>>>>

\* an alien bullet coming down on the ship's gun
DuelScript ==
    <<<<"Move", -MOVE_SPEED, 1>>, <<"Tick", 0, 63>>, <<"Move", 0, 1>>,
      <<"Tick", 0, 77>>, <<"AlienShoot", 0, 1>>, <<"Tick", 0, 80>>>>

\* a shot straight into the third shield, up to the Tick before the bullet's
\* top edge reaches the shield's bottom edge (y = 465)
TouchScript == <<<<"Shoot", 0, 1>>, <<"Tick", 0, 8>>>>

\* a second shot into the third shield, the first having opened a hole at
\* y = 465..490: up to the Tick before the second bullet is past that hole
\* (its top edge at y = 440) and opens a hole of its own
SecondHoleScript ==
    <<<<"Shoot", 0, 1>>, <<"Tick", 0, 9>>, <<"Shoot", 0, 1>>, <<"Tick", 0, 13>>>>

\* the same two shots when the formation's lowest row has come down to
\* y = 420..455, behind the shields: up to the Tick on which the second
\* bullet, its top edge at y = 465, enters the hole of the first
HoleScript ==
    <<<<"Tick", 0, 2736>>, <<"Shoot", 0, 1>>, <<"Tick", 0, 9>>,
      <<"Shoot", 0, 1>>, <<"Tick", 0, 9>>>>

\* the ship moved to x = 479, a shot that meets nothing on its way up and a
\* shot of alien0 that falls between the first two shields: up to the Tick
\* that brings the one to y = 5 and the other to y = 575 (its lower edge at
\* 599), the last positions inside the canvas but one
EdgeScript ==
    <<<<"Move", MOVE_SPEED, 1>>, <<"Tick", 0, 68>>, <<"Move", 0, 1>>, <<"Tick", 0, 20>>,
      <<"Shoot", 0, 1>>, <<"Tick", 0, 3>>, <<"AlienShoot", 0, 1>>, <<"Tick", 0, 98>>>>

\* a UFO crossing the canvas and the ship moved to x = 479, under the gap
\* between the last two shields and right of the formation, up to the Tick
\* before the player's bullet reaches the UFO
UfoHitScript ==
    <<<<"UfoSpawn", 0, 1>>, <<"Move", MOVE_SPEED, 1>>, <<"Tick", 0, 68>>,
      <<"Move", 0, 1>>, <<"Tick", 0, 92>>, <<"Shoot", 0, 1>>, <<"Tick", 0, 79>>>>

\* the ship held to the left up to x = 2, one Tick short of the wall
WallScript == <<<<"Move", -MOVE_SPEED, 1>>, <<"Tick", 0, 91>>>>

\* Ticks alone until the formation has come down to the ship: its rows are at
\* y = 470, 515 and 560, and a bullet leaving the gun meets two of them
LowScript == <<<<"Tick", 0, 3729>>>>

\* a value of Math.random(): 1128439558 / 2^48 = 0.000004009..; the generator's
\* next state is 16769.0176.., whose int() is 2147483647.58..
SmallSeed == <<0, 0, 0, 17218, 40710>>

Scripts ==
    { [hiScore |-> 0,  seed |-> Dbl(0), script |-> <<>>],
      [hiScore |-> 0,  seed |-> SmallSeed, script |-> <<>>],
      [hiScore |-> 20, seed |-> Dbl(0), script |-> <<>>],
      [hiScore |-> 20, seed |-> Dbl(0), script |-> FirstKillScript],
      [hiScore |-> 0,  seed |-> Dbl(0), script |-> TouchScript],
      [hiScore |-> 0,  seed |-> Dbl(0), script |-> SecondHoleScript],
      [hiScore |-> 0,  seed |-> Dbl(0), script |-> HoleScript],
      [hiScore |-> 0,  seed |-> Dbl(0), script |-> EdgeScript],
      [hiScore |-> 0,  seed |-> Dbl(0), script |-> DuelScript],
      [hiScore |-> 0,  seed |-> Dbl(0), script |-> UfoHitScript],
      [hiScore |-> 0,  seed |-> Dbl(0), script |-> WallScript],
      [hiScore |-> 0,  seed |-> Dbl(0), script |-> LowScript],
      [hiScore |-> 0,  seed |-> Dbl(0), script |-> ShipHitScript],
      [hiScore |-> 0,  seed |-> Dbl(0), script |-> LastKillScript],
      [hiScore |-> 0,  seed |-> Dbl(0), script |-> LastKillOverScript] }

\* runs made only of Ticks, from the first formation and from the formations
\* of the second and third levels (the Tick after the last kill finds the
\* formation empty and renews the state): at the start, 300 Ticks into the
\* first march, before its first reversal (Tick 465) and its second (Tick
\* 876), 3930 Ticks into the first level, when the formation nears the bottom
\* of the canvas, and 1200 Ticks into the third level
MarchScripts ==
    { [hiScore |-> 0, seed |-> Dbl(0), script |-> <<>>],
      [hiScore |-> 0, seed |-> Dbl(0), script |-> <<<<"Tick", 0, 300>>>>],
      [hiScore |-> 0, seed |-> Dbl(0), script |-> <<<<"Tick", 0, 450>>>>],
      [hiScore |-> 0, seed |-> Dbl(0), script |-> <<<<"Tick", 0, 860>>>>],
      [hiScore |-> 0, seed |-> Dbl(0), script |-> <<<<"Tick", 0, 3930>>>>],
      [hiScore |-> 0, seed |-> Dbl(0), script |-> LastKillScript \o <<<<"Tick", 0, 2>>>>],
      [hiScore |-> 0, seed |-> Dbl(0), script |-> LastKillScript \o <<<<"Tick", 0, 302>>>>],
      [hiScore |-> 0, seed |-> Dbl(0), script |-> ToLevel3Script \o <<<<"Tick", 0, 1200>>>>] }

\* the ship moved to x = 479, where a shot meets nothing on its way up
AimScript ==
    <<<<"Move", MOVE_SPEED, 1>>, <<"Tick", 0, 68>>, <<"Move", 0, 1>>, <<"Tick", 0, 20>>>>

\* the runs that the flight of the player's bullet is followed from: a ship
\* under the third shield and one under a clear column, a bullet about to
\* pass through a UFO, to meet an alien's bullet, to enter a hole with an
\* alien behind it, and a generator one AlienShoot away from an index that
\* is out of range
FlightScripts ==
    { [hiScore |-> 0, seed |-> Dbl(0), script |-> <<>>],
      [hiScore |-> 0, seed |-> Dbl(0), script |-> AimScript],
      [hiScore |-> 0, seed |-> Dbl(0), script |-> UfoHitScript],
      [hiScore |-> 0, seed |-> Dbl(0), script |-> DuelScript],
      [hiScore |-> 0, seed |-> Dbl(0), script |-> HoleScript],
      [hiScore |-> 0, seed |-> SmallSeed, script |-> <<<<"AlienShoot", 0, 1>>>>] }

\* the runs that a level is followed from to its end: the start of the game,
\* a formation with a gap after the first kill, the Tick before the last kill
\* of the first level (the second level follows), two aliens left with an
\* alien's bullet about to reach the ship, and the start of the third level
LevelScripts ==
    { [hiScore |-> 0,  seed |-> Dbl(0), script |-> <<>>],
      [hiScore |-> 20, seed |-> Dbl(0), script |-> FirstKillScript],
      [hiScore |-> 0,  seed |-> Dbl(0), script |-> LastKillScript],
      [hiScore |-> 0,  seed |-> Dbl(0), script |-> ShipHitScript],
      [hiScore |-> 0,  seed |-> Dbl(0), script |-> ToLevel3Script] }

\* the scan of each script
Runs ==
    [r \in Scripts \cup MarchScripts \cup FlightScripts \cup LevelScripts |->
        scan(Start(r.hiScore, r.seed), r.script)]

Scenarios == { Runs[r] : r \in Scripts }

Marches == { Runs[r] : r \in MarchScripts }

Flights == { Runs[r] : r \in FlightScripts }

Levels == { Runs[r] : r \in LevelScripts }

(***************************************************************************)
(* The state machine.  s is the scan's accumulator and clock the number of *)
(* the next Tick; crashed says that reduceState threw, which ends the      *)
(* subscription.  prev and ev record the last reduction (its input state   *)
(* and its event), evBefore the event of the reduction before it, and      *)
(* steps counts the events folded since Init.  probe holds the arguments   *)
(* of a function called outside a game (a pair of bodies handed to         *)
(* bodiesCollided, a storage handed to the storage functions) with the     *)
(* answers got so far; a game has none.  view is the document that         *)
(* updateView, subscribed to the scan, has drawn the accumulators into.    *)
(***************************************************************************)
VARIABLES s, clock, crashed, prev, ev, evBefore, steps, probe, view

vars == <<s, clock, crashed, prev, ev, evBefore, steps, probe, view>>

MaxSteps == 4

NoProbe == [pair |-> <<>>, hit |-> {}, swapped |-> {}]

Init ==
    \E g \in Scenarios :
        /\ s = g.s
        /\ clock = g.clock
        /\ crashed = FALSE
        /\ prev = g.s
        /\ ev = Event("Init")
        /\ evBefore = Event("Init")
        /\ steps = 0
        /\ probe = NoProbe
        /\ view = g.view

\* scan's step: the accumulator becomes reduceState(s, e) and is rendered
Reduce(e) ==
    /\ ~crashed
    /\ steps < MaxSteps
    /\ s' = reduceState(s, e)
    /\ prev' = s
    /\ ev' = e
    /\ evBefore' = ev
    /\ steps' = steps + 1
    /\ crashed' = crashed
    /\ probe' = probe
    /\ view' = updateView(view, s')

TickEv == Reduce(TickEvent(clock)) /\ clock' = clock + 1

MoveEv == \E d \in {-MOVE_SPEED, 0, MOVE_SPEED} : Reduce(MoveEvent(d)) /\ clock' = clock

ShootEv == Reduce(Event("Shoot")) /\ clock' = clock

\* alienShoot reads attacker.pos: with attacker undefined it throws
AlienShootEv ==
    IF /\ Len(s.aliens.bodies) > 0
       /\ ~s.gameOver
       /\ attackerIndex(s) >= Len(s.aliens.bodies)
    THEN /\ ~crashed
         /\ steps < MaxSteps
         /\ crashed' = TRUE
         /\ UNCHANGED <<s, clock, prev, ev, evBefore, steps, probe, view>>
    ELSE Reduce(Event("AlienShoot")) /\ clock' = clock

UfoSpawnEv == Reduce(Event("UfoSpawn")) /\ clock' = clock

RestartEv == Reduce(Event("Restart")) /\ clock' = clock

Next == TickEv \/ MoveEv \/ ShootEv \/ AlienShootEv \/ UfoSpawnEv \/ RestartEv

Spec == Init /\ [][Next]_vars

(***************************************************************************)
(* The march: the stream with gameClock$ alone, so that no bullet is ever  *)
(* shot and nothing collides.                                              *)
(***************************************************************************)
MaxTicks == 40

InitMarch ==
    \E g \in Marches :
        /\ s = g.s
        /\ clock = g.clock
        /\ crashed = FALSE
        /\ prev = g.s
        /\ ev = Event("Init")
        /\ evBefore = Event("Init")
        /\ steps = 0
        /\ probe = NoProbe
        /\ view = g.view

MarchTick ==
    /\ ~crashed
    /\ steps < MaxTicks
    /\ s' = reduceState(s, TickEvent(clock))
    /\ prev' = s
    /\ ev' = TickEvent(clock)
    /\ evBefore' = ev
    /\ steps' = steps + 1
    /\ clock' = clock + 1
    /\ crashed' = crashed
    /\ probe' = probe
    /\ view' = updateView(view, s')

NextMarch == MarchTick

SpecMarch == InitMarch /\ [][NextMarch]_vars

(***************************************************************************)
(* bodiesCollided on its own: a shield of createShields and a bullet put   *)
(* around it, so that each edge of the bullet is just short of, on, and    *)
(* just past each edge of the shield; the pair is tested in both orders.   *)
(***************************************************************************)
MaxGap == 1

\* the coordinates that put an edge of a body of the given size within MaxGap
\* of the interval lo..hi, and one well inside
Around(lo, hi, size) ==
    {lo - size + g : g \in -MaxGap..MaxGap} \cup {hi + g : g \in -MaxGap..MaxGap}
        \cup {lo + (hi - lo) \div 2}

\* the probes of one shield
ProbesAt(shield) ==
    { [pair |-> <<shield,
                  createBody("bulletPlayer", <<ROWS * COLS>>, START_TIME, BULLET_DIMS,
                             Vec(x, y), VecRotate180(Vec(0, PLAYER_VEL)), VecZero)>>,
       hit |-> {}, swapped |-> {}] :
        x \in Around(shield.pos.x, shield.pos.x + shield.dims.width, BULLET_DIMS.width),
        y \in Around(shield.pos.y, shield.pos.y + shield.dims.height, BULLET_DIMS.height) }

Probes == UNION { ProbesAt(createShields[k]) : k \in 1..SHIELD_COUNT }

InitCollide ==
    /\ s = initialState(0, Dbl(0))
    /\ clock = 0
    /\ crashed = FALSE
    /\ prev = s
    /\ ev = Event("Init")
    /\ evBefore = Event("Init")
    /\ steps = 0
    /\ probe \in Probes
    /\ view = emptyCanvas

\* bodiesCollided([a, b])
Collide ==
    /\ probe.hit = {}
    /\ probe' = [probe EXCEPT !.hit = {bodiesCollided(probe.pair)}]
    /\ UNCHANGED <<s, clock, crashed, prev, ev, evBefore, steps, view>>

\* bodiesCollided([b, a])
CollideSwapped ==
    /\ probe.swapped = {}
    /\ probe' = [probe EXCEPT !.swapped = {bodiesCollided(<<probe.pair[2], probe.pair[1]>>)}]
    /\ UNCHANGED <<s, clock, crashed, prev, ev, evBefore, steps, view>>

NextCollide == Collide \/ CollideSwapped

SpecCollide == InitCollide /\ [][NextCollide]_vars

(***************************************************************************)
(* The storage functions on their own: localStorage as the browser gives   *)
(* it (absent, empty, or holding a string under the key), read as          *)
(* CONST.PREV_HI_SCORE does and written as updateView does.                *)
(***************************************************************************)
MaxStored == 10

\* what the key may hold when the page loads: nothing, an empty string, a
\* score written by an earlier game, or a string that is no number
StoredItems ==
    { {}, {<<>>}, {String(0)}, {String(20)}, {String(230)}, {<<"x">>} }

\* the scores updateView may write: multiples of ALIEN.SCORING
HiScores == { ALIEN_SCORING * k : k \in 0..MaxStored }

StorageProbe(local) ==
    [local |-> local, call |-> "none", before |-> local, arg |-> 0,
     out |-> Returned(Num(0), local)]

InitStorage ==
    /\ s = initialState(0, Dbl(0))
    /\ clock = 0
    /\ crashed = FALSE
    /\ prev = s
    /\ ev = Event("Init")
    /\ evBefore = Event("Init")
    /\ steps = 0
    /\ probe \in { StorageProbe(NoStorage) } \cup { StorageProbe(Storage(i)) : i \in StoredItems }
    /\ view = emptyCanvas

\* getDataLocalStorage(localStorage, HIGH_SCORE_KEY)
GetData ==
    /\ probe' = [probe EXCEPT !.call = "getDataLocalStorage",
                              !.before = probe.local,
                              !.arg = 0,
                              !.out = getDataLocalStorage(probe.local, HIGH_SCORE_KEY),
                              !.local = getDataLocalStorage(probe.local, HIGH_SCORE_KEY).local]
    /\ UNCHANGED <<s, clock, crashed, prev, ev, evBefore, steps, view>>

\* updateLocalStorage(localStorage, HIGH_SCORE_KEY, hiScore)
Update ==
    \E hiScore \in HiScores :
        /\ probe' = [probe EXCEPT !.call = "updateLocalStorage",
                                  !.before = probe.local,
                                  !.arg = hiScore,
                                  !.out = updateLocalStorage(probe.local, HIGH_SCORE_KEY, hiScore),
                                  !.local = updateLocalStorage(probe.local, HIGH_SCORE_KEY, hiScore).local]
        /\ UNCHANGED <<s, clock, crashed, prev, ev, evBefore, steps, view>>

NextStorage == GetData \/ Update

SpecStorage == InitStorage /\ [][NextStorage]_vars

(***************************************************************************)
(* The flight of a bullet: the stream with the player and the aliens       *)
(* shooting during its first MaxEvents events and gameClock$ ticking on    *)
(* for MaxFlight events more, which is longer than any bullet flies: from  *)
(* the gun, at y = 510, a bullet that meets nothing has its upper edge on  *)
(* y = 0 after 102 Ticks and is removed by the next.  interval(10) emits   *)
(* for as long as the subscription lives, so the Tick is weakly fair; the  *)
(* Ticks are the steps that take clock on, and fairness is stated on       *)
(* those, which spares TLC the reduction when it evaluates ENABLED.        *)
(***************************************************************************)
MaxEvents == 2

MaxFlight == 105

InitFlight ==
    \E g \in Flights :
        /\ s = g.s
        /\ clock = g.clock
        /\ crashed = FALSE
        /\ prev = g.s
        /\ ev = Event("Init")
        /\ evBefore = Event("Init")
        /\ steps = 0
        /\ probe = NoProbe
        /\ view = g.view

\* scan's step for the events counted up to limit
ReduceWithin(e, limit) ==
    /\ ~crashed
    /\ steps < limit
    /\ s' = reduceState(s, e)
    /\ prev' = s
    /\ ev' = e
    /\ evBefore' = ev
    /\ steps' = steps + 1
    /\ crashed' = crashed
    /\ probe' = probe
    /\ view' = updateView(view, s')

FlightTick == ReduceWithin(TickEvent(clock), MaxEvents + MaxFlight) /\ clock' = clock + 1

FlightShoot == ReduceWithin(Event("Shoot"), MaxEvents) /\ clock' = clock

\* alienShoot throws when the attacker is undefined, as in AlienShootEv
FlightAlienShoot ==
    IF /\ Len(s.aliens.bodies) > 0
       /\ ~s.gameOver
       /\ attackerIndex(s) >= Len(s.aliens.bodies)
    THEN /\ ~crashed
         /\ steps < MaxEvents
         /\ crashed' = TRUE
         /\ UNCHANGED <<s, clock, prev, ev, evBefore, steps, probe, view>>
    ELSE ReduceWithin(Event("AlienShoot"), MaxEvents) /\ clock' = clock

NextFlight == FlightTick \/ FlightShoot \/ FlightAlienShoot

\* gameClock$ emits: a step of FlightTick, seen on clock alone
FlightClock == ~crashed /\ steps < MaxEvents + MaxFlight /\ clock' = clock + 1

SpecFlight == InitFlight /\ [][NextFlight]_vars /\ WF_clock(FlightClock)

(***************************************************************************)
(* A level to its end: the stream with gameClock$ alone, and no Restart,   *)
(* for MaxLevelTicks Ticks, which is more than a formation left alone      *)
(* takes to reach the bottom of the canvas (3950 Ticks on the first two    *)
(* levels).  The Tick is weakly fair, as in SpecFlight.                    *)
(***************************************************************************)
MaxLevelTicks == 4000

InitLevel ==
    \E g \in Levels :
        /\ s = g.s
        /\ clock = g.clock
        /\ crashed = FALSE
        /\ prev = g.s
        /\ ev = Event("Init")
        /\ evBefore = Event("Init")
        /\ steps = 0
        /\ probe = NoProbe
        /\ view = g.view

LevelTick == ReduceWithin(TickEvent(clock), MaxLevelTicks) /\ clock' = clock + 1

NextLevel == LevelTick

\* gameClock$ emits: a step of LevelTick, seen on clock alone
LevelClock == ~crashed /\ steps < MaxLevelTicks /\ clock' = clock + 1

SpecLevel == InitLevel /\ [][NextLevel]_vars /\ WF_clock(LevelClock)

(***************************************************************************)
(* Properties.  Reduced says that s is reduceState(prev, ev).              *)
(***************************************************************************)
Reduced == steps > 0

\* C1  Level-advance: reducing any event against a state whose formation is
\* empty, gameOver set or not, gives ROWS*COLS aliens, the same score and
\* ALIEN_ACC_SCALE times the previous accMagnitude.
C1_LevelAdvance ==
    (Reduced /\ Len(prev.aliens.bodies) = 0) =>
        /\ Len(s.aliens.bodies) = ROWS * COLS
        /\ s.score = prev.score
        /\ s.aliens.accMagnitude = ALIEN_ACC_SCALE * prev.aliens.accMagnitude

\* a Restart reduced against an empty formation, with gameOver set and points scored
C1_Witness ==
    /\ Reduced /\ Len(prev.aliens.bodies) = 0
    /\ ev.kind = "Restart" /\ prev.gameOver /\ prev.score > 0
    /\ Len(s.aliens.bodies) = ROWS * COLS

\* C2  Restart against a non-empty formation gives score 0, gameOver false, a
\* fresh ship, a fresh formation of 24 aliens at the initial acceleration,
\* and the shields it had.
C2_Restart ==
    (Reduced /\ ev.kind = "Restart" /\ Len(prev.aliens.bodies) > 0) =>
        /\ s.score = 0
        /\ ~s.gameOver
        /\ s.ship = createShip
        /\ s.ship.pos = Vec(275 * U, 540 * U) /\ s.ship.vel = VecZero
        /\ Len(s.aliens.bodies) = 24
        /\ s.aliens = createAliens(ALIEN_INITIAL_ACC)
        /\ s.shields = prev.shields
        /\ s.aliens.accMagnitude = ALIEN_INITIAL_ACC

\* a Restart on the second level, with points scored and the ship moved
C2_Witness ==
    /\ Reduced /\ ev.kind = "Restart" /\ Len(prev.aliens.bodies) > 0
    /\ prev.aliens.accMagnitude = ALIEN_ACC_SCALE * ALIEN_INITIAL_ACC
    /\ prev.score > 0
    /\ prev.ship # createShip
    /\ s.score = 0

\* C3  Frozen game over: with gameOver set and a non-empty formation, every
\* event but Restart returns the state it was given, field by field.
C3_Frozen ==
    (Reduced /\ prev.gameOver /\ Len(prev.aliens.bodies) > 0 /\ ev.kind # "Restart") =>
        /\ s.time = prev.time /\ s.score = prev.score /\ s.hiScore = prev.hiScore
        /\ s.gameOver = prev.gameOver /\ s.ship = prev.ship /\ s.bullets = prev.bullets
        /\ s.exit = prev.exit /\ s.shields = prev.shields /\ s.holes = prev.holes
        /\ s.aliens = prev.aliens /\ s.ufo = prev.ufo /\ s.objCount = prev.objCount
        /\ s.rng = prev.rng

\* a Tick, numbered later than the state's time, reduced against a game that is
\* over with a bullet still in flight
C3_Witness ==
    /\ Reduced /\ prev.gameOver /\ Len(prev.aliens.bodies) > 0
    /\ ev.kind = "Tick" /\ ev.elapsed > prev.time
    /\ Len(prev.bullets) > 0
    /\ s = prev

\* C4  gameOver is latched: a reduction that takes gameOver from true to false
\* is a renewState, its event Restart or its formation empty; a Tick that
\* reaches tick (the formation is not empty) leaves gameOver true.
C4_Latched ==
    /\ (Reduced /\ prev.gameOver /\ ~s.gameOver) =>
          /\ ev.kind = "Restart" \/ Len(prev.aliens.bodies) = 0
          /\ s = renewState(prev, Len(prev.aliens.bodies) > 0)
    /\ (Reduced /\ prev.gameOver /\ ev.kind = "Tick" /\ Len(prev.aliens.bodies) > 0) =>
          s.gameOver

\* gameOver cleared by a Restart reduced against a non-empty formation
C4_Witness ==
    /\ Reduced /\ prev.gameOver /\ ~s.gameOver
    /\ ev.kind = "Restart" /\ Len(prev.aliens.bodies) > 0

\* C5 as stated: the score after a reduction is at least the score before it.
C5_ScoreMonotone == Reduced => s.score >= prev.score

\* C5  Score monotonicity, but for a Restart reduced against a non-empty
\* formation, which sets the score to 0.
C5_ScoreMonotoneButRestart ==
    (Reduced /\ ~(ev.kind = "Restart" /\ Len(prev.aliens.bodies) > 0)) =>
        s.score >= prev.score

\* a Tick that scores
C5_Witness == Reduced /\ ev.kind = "Tick" /\ s.score > prev.score

\* C6  High score: after every reduction hiScore is the larger of the hiScore
\* before it and the score after it; it never decreases and is at least the
\* score.
C6_HiScore ==
    /\ Reduced =>
        /\ s.hiScore = IF prev.hiScore >= s.score THEN prev.hiScore ELSE s.score
        /\ s.hiScore >= prev.hiScore
    /\ s.hiScore >= s.score

\* a Tick that raises the high score
C6_Witness == Reduced /\ ev.kind = "Tick" /\ s.hiScore > prev.hiScore /\ prev.hiScore > 0

\* C7  Single-shot rule: with a non-empty formation, gameOver false and a
\* bulletPlayer in bullets, Shoot changes no field.
C7_SingleShot ==
    (/\ Reduced /\ ev.kind = "Shoot"
     /\ Len(prev.aliens.bodies) > 0 /\ ~prev.gameOver
     /\ \E k \in 1..Len(prev.bullets) : prev.bullets[k].viewType = "bulletPlayer") =>
        /\ s.bullets = prev.bullets
        /\ s.objCount = prev.objCount
        /\ s = prev

\* a Shoot while the player's bullet is in flight
C7_Witness ==
    /\ Reduced /\ ev.kind = "Shoot"
    /\ Len(prev.aliens.bodies) > 0 /\ ~prev.gameOver
    /\ \E k \in 1..Len(prev.bullets) : prev.bullets[k].viewType = "bulletPlayer"

\* Shoot reduced against a game that is on, with no bulletPlayer in flight
C8_ShootApplies ==
    /\ Reduced /\ ev.kind = "Shoot"
    /\ Len(prev.aliens.bodies) > 0 /\ ~prev.gameOver
    /\ \A k \in 1..Len(prev.bullets) : prev.bullets[k].viewType # "bulletPlayer"

\* 'bulletPlayer' + objCount, at ship.pos + (50/2 - 6/2, -30); its velocity is
\* (0, 5) rotated by 180 degrees, (-5 sin pi, -5): 5 up, and an x component
\* that is lost in the sum with any x the bullet can have
C8_Bullet ==
    [id |-> <<"bulletPlayer", prev.objCount>>, viewType |-> "bulletPlayer",
     createTime |-> prev.time, dims |-> [width |-> 6 * U, height |-> 24 * U],
     pos |-> Vec(prev.ship.pos.x + 22 * U, prev.ship.pos.y - 30 * U),
     vel |-> [x |-> 0, y |-> -5 * U, rx |-> -5 * U, ry |-> 0],
     acc |-> VecZero]

C8_Shoot ==
    C8_ShootApplies =>
        s = [prev EXCEPT !.bullets = prev.bullets \o <<C8_Bullet>>,
                         !.objCount = prev.objCount + 1]

\* the bullet of the Shoot just reduced: the last of prev.bullets, the last
\* object numbered, not yet moved from its spawn point
C8_Shot == prev.bullets[Len(prev.bullets)]

\* a Tick reduced right after a Shoot that shot
C8_ShotThenTick ==
    /\ Reduced /\ ev.kind = "Tick" /\ evBefore.kind = "Shoot"
    /\ Len(prev.aliens.bodies) > 0 /\ ~prev.gameOver
    /\ Len(prev.bullets) > 0
    /\ C8_Shot.id = <<"bulletPlayer", prev.objCount - 1>>
    /\ C8_Shot.pos = Vec(prev.ship.pos.x + 22 * U, prev.ship.pos.y - 30 * U)

\* exactly one bulletPlayer, one velocity step above its spawn point, and the
\* score unchanged
C8_OneStepUp ==
    LET pb == SelectSeq(s.bullets, LAMBDA b : b.viewType = "bulletPlayer")
    IN  /\ Len(pb) = 1
        /\ pb[1].id = C8_Shot.id
        /\ pb[1].pos = Vec(C8_Shot.pos.x, C8_Shot.pos.y - 5 * U)
        /\ s.score = prev.score

\* the bullet, moved by the Tick, overlaps no other bullet, no alien and no UFO
\* as the Tick moved them
C8_Clear ==
    LET b == moveBody(C8_Shot)
        others == moveBodies(SelectSeq(SubSeq(prev.bullets, 1, Len(prev.bullets) - 1),
                                          inBounds))
                  \o moveAliens(prev.aliens).bodies
                  \o moveBodies(prev.ufo)
    IN  \A k \in 1..Len(others) : ~bodiesCollided(<<b, others[k]>>)

liveBodies(st) ==
    <<st.ship>> \o st.bullets \o st.shields \o st.holes \o st.aliens.bodies \o st.ufo

\* C9  Id uniqueness: no two bodies among ship, bullets, shields, holes,
\* aliens.bodies and ufo have the same id.
C9_UniqueIds ==
    LET live == liveBodies(s)
    IN  \A i, j \in 1..Len(live) : i # j => live[i].id # live[j].id

\* bullets of both kinds, holes and a UFO, all numbered from objCount
C9_Witness ==
    /\ Len(s.holes) > 0 /\ Len(s.ufo) > 0
    /\ \E i, j \in 1..Len(s.bullets) :
          s.bullets[i].viewType = "bulletPlayer" /\ s.bullets[j].viewType = "bulletAlien"

\* C10 as stated: every alien's vel and acc are those of the formation anchor,
\* movementPos.current.
C10_Rigid ==
    \A k \in 1..Len(s.aliens.bodies) :
        /\ s.aliens.bodies[k].vel = s.aliens.movementPos.current.vel
        /\ s.aliens.bodies[k].acc = s.aliens.movementPos.current.acc

\* C11  Bounds containment: in a run of Ticks alone from a fresh formation,
\* every alien stays within X_BOUNDS, give or take the speed |vel.x| of one Tick.
C11_Contained ==
    \A k \in 1..Len(s.aliens.bodies) :
        LET b == s.aliens.bodies[k]
            speed == IF b.vel.x < 0 THEN -b.vel.x ELSE b.vel.x
        IN  /\ b.pos.x >= X_BOUNDS.left - speed
            /\ b.pos.x + b.dims.width <= X_BOUNDS.right + speed

\* C12  Alien-shoot index safety: in every state to which reduceState would
\* dispatch an AlienShoot (formation not empty, game not over), the index
\* floor(aliens.bodies.length * rng.float()) is at least 0 and below the length.
C12_AttackerExists ==
    (Len(s.aliens.bodies) > 0 /\ ~s.gameOver) =>
        /\ attackerIndex(s) >= 0
        /\ attackerIndex(s) < Len(s.aliens.bodies)

\* C13  RNG range: for every state of the generator from 0 to m - 1, float() =
\* int() / (m - 1) is at least 0 and below 1, and float() leaves the state
\* alone: an AlienShoot, which calls float() and then next(), advances the
\* generator by one step of int().
C13_FloatRange ==
    LET state == s.rng.state
        inRange == IntPart(state) < RNG_mLess1 \/ state = Dbl(RNG_mLess1)
    IN  /\ inRange => /\ IntPart(RNGint(state)) >= 0
                      /\ IntPart(RNGint(state)) < RNG_mLess1
        /\ (Reduced /\ ev.kind = "AlienShoot" /\ Len(prev.aliens.bodies) > 0 /\ ~prev.gameOver)
               => s.rng.state = RNGint(prev.rng.state)

\* (1103515245 * state + 12345) mod 0x80000000, without rounding
LCG(state) == ModM(AddUnits(WideMul(RNG_a, state), RNG_c))

\* a reduction that replaces rng by rng.next(): renewState and alienShoot
Advanced ==
    /\ Reduced
    /\ \/ Len(prev.aliens.bodies) = 0
       \/ ev.kind = "Restart"
       \/ ev.kind = "AlienShoot" /\ ~prev.gameOver

\* C14  RNG determinism: the sequence of states (and so of float values) is a
\* function of the seed, each next() yielding
\* state' = (1103515245 * state + 12345) mod 0x80000000.
C14_LCG == Advanced => s.rng.state = LCG(prev.rng.state)

\* C15  UFO cardinality: in every reachable state the ufo collection holds at
\* most one body.
C15_OneUfo == Len(s.ufo) <= 1

\* C16  Move frame: a Move{direction} reduced against a state with a non-empty
\* formation and gameOver false sets ship.vel to (direction, 0) and changes
\* nothing else: not ship.pos, not ship.acc, no other field of the state.
C16_MoveFrame ==
    (Reduced /\ ev.kind = "Move" /\ Len(prev.aliens.bodies) > 0 /\ ~prev.gameOver) =>
        /\ s.ship.vel = Vec(ev.direction, 0)
        /\ s.ship.pos = prev.ship.pos
        /\ s.ship.acc = prev.ship.acc
        /\ [s EXCEPT !.ship = prev.ship] = prev

\* a Move to the right that changes the velocity of the ship, bullets in flight
C16_Witness ==
    /\ Reduced /\ ev.kind = "Move" /\ ev.direction = MOVE_SPEED
    /\ Len(prev.aliens.bodies) > 0 /\ ~prev.gameOver
    /\ prev.ship.vel # Vec(MOVE_SPEED, 0)
    /\ s.ship.vel = Vec(MOVE_SPEED, 0)
    /\ Len(s.bullets) > 0

\* a Tick that reaches tick(): the formation is not empty and the game is on
Ticked == Reduced /\ ev.kind = "Tick" /\ Len(prev.aliens.bodies) > 0 /\ ~prev.gameOver

\* e is a body with the id of a body of the live collections of st
liveIn(st, e) ==
    /\ "id" \in DOMAIN e
    /\ \E k \in 1..Len(liveBodies(st)) : liveBodies(st)[k].id = e.id

\* C17  Exit list scope: after every Tick, exit holds only bodies that this
\* Tick removed from a live collection (live before the Tick, not after it);
\* what earlier reductions removed is no longer in exit.
C17_ExitScope ==
    Ticked => \A k \in 1..Len(s.exit) : liveIn(prev, s.exit[k]) /\ ~liveIn(s, s.exit[k])

\* C18  renewState exit (aliens): after a Restart reduced against a non-empty
\* formation, each body of the old aliens.bodies is an element of the new exit.
C18_AliensExit ==
    (Reduced /\ ev.kind = "Restart" /\ Len(prev.aliens.bodies) > 0) =>
        \A k \in 1..Len(prev.aliens.bodies) :
            \E j \in 1..Len(s.exit) :
                /\ "id" \in DOMAIN s.exit[j]
                /\ s.exit[j] = prev.aliens.bodies[k]

\* the bodies that take their id from objCount
countedBodies(st) == st.bullets \o st.holes \o st.ufo

\* C19  Object counter: no reduction lowers objCount; it grows by the number
\* of bodies created: ROWS*COLS in renewState, 1 for a Shoot that shoots, 1 for
\* an AlienShoot, 1 for a UfoSpawn, the number of new holes for a Tick, and 0
\* otherwise; and the number in the id of every live bullet, hole and UFO is
\* below objCount.
C19_ObjCount ==
    LET grown == s.objCount - prev.objCount
        renewed == Len(prev.aliens.bodies) = 0 \/ ev.kind = "Restart"
    IN  /\ \A k \in 1..Len(countedBodies(s)) : countedBodies(s)[k].id[2] < s.objCount
        /\ Reduced =>
              /\ grown >= 0
              /\ grown = IF renewed THEN ROWS * COLS
                         ELSE IF prev.gameOver THEN 0
                         ELSE IF ev.kind = "Shoot" THEN (IF hasPlayerBullet(prev) THEN 0 ELSE 1)
                         ELSE IF ev.kind = "AlienShoot" THEN 1
                         ELSE IF ev.kind = "UfoSpawn" THEN 1
                         ELSE IF ev.kind = "Tick" THEN Len(s.holes) - Len(prev.holes)
                         ELSE 0

\* a Tick on which a bullet opens a hole in a shield, a UFO being on screen
C19_Witness ==
    /\ Ticked
    /\ Len(s.holes) > Len(prev.holes)
    /\ s.objCount = prev.objCount + 1
    /\ Len(s.ufo) > 0

\* the intervals lo1..hi1 and lo2..hi2, ends included, have a point in common
Meet(lo1, hi1, lo2, hi2) ==
    (IF lo1 > lo2 THEN lo1 ELSE lo2) <= (IF hi1 < hi2 THEN hi1 ELSE hi2)

\* the rectangles of a and b, edges included, have a point in common
Overlap(a, b) ==
    /\ Meet(a.pos.x, a.pos.x + a.dims.width, b.pos.x, b.pos.x + b.dims.width)
    /\ Meet(a.pos.y, a.pos.y + a.dims.height, b.pos.y, b.pos.y + b.dims.height)

C21_Degrades ==
    (probe.call # "none" /\ probe.before.type = "undefined") =>
        /\ ~probe.out.threw
        /\ probe.local = probe.before
        /\ probe.call = "getDataLocalStorage" => probe.out.value = Num(0)

\* e is a body with the id of an element of the array a
inArray(a, e) == \E k \in 1..Len(a) : "id" \in DOMAIN a[k] /\ a[k].id = e.id

\* the player's bullets and the UFOs of the interim state that tick hands to
\* handleCollisions
interimPlayerBullets(st) ==
    SelectSeq(moveBodies(SelectSeq(st.bullets, inBounds)),
              LAMBDA b : b.viewType = "bulletPlayer")

interimUfos(st) ==
    moveBodies(SelectSeq(st.ufo, LAMBDA o : o.pos.x < CANVAS_SIZE + o.dims.width))

\* the pairs (bulletPlayer, UFO) that overlap in the interim state
ufoHits(st) == SelectSeq(flatMapPairs(interimPlayerBullets(st), interimUfos(st)), bodiesCollided)

\* the pairs (bulletPlayer, alien) that overlap in the interim state
alienHits(st) ==
    SelectSeq(flatMapPairs(interimPlayerBullets(st), moveAliens(st.aliens).bodies),
              bodiesCollided)

\* C22  Player bullet vs UFO: after a Tick on which a bulletPlayer overlaps a
\* UFO in the interim state, that UFO is no longer in ufo, that bullet no
\* longer in bullets, both are in exit, and the score has grown by UFO.POINTS
\* for each UFO hit (and by ALIEN.SCORING for each alien hit).
C22_UfoHit ==
    Ticked =>
        /\ \A k \in 1..Len(ufoHits(prev)) :
              /\ ~inArray(s.ufo, ufoHits(prev)[k][2])
              /\ ~inArray(s.bullets, ufoHits(prev)[k][1])
              /\ inArray(s.exit, ufoHits(prev)[k][2])
              /\ inArray(s.exit, ufoHits(prev)[k][1])
        /\ s.score = prev.score + ALIEN_SCORING * Len(alienHits(prev))
                     + UFO_POINTS * Cardinality({ufoHits(prev)[k][2].id : k \in 1..Len(ufoHits(prev))})

C24_WallStop ==
    /\ s.ship.pos.x >= -MOVE_SPEED
    /\ s.ship.pos.x + s.ship.dims.width <= CANVAS_SIZE + MOVE_SPEED
    /\ (Ticked /\ ~inBounds(prev.ship)) => (inBounds(s.ship) /\ s.ship.vel = VecZero)

\* C25  Alien-invasion check: a Tick with no bullet in flight (the ship cannot
\* be hit) sets gameOver if and only if an alien of the formation it was given
\* has crossed the bottom edge of the canvas; where the aliens are
\* horizontally does not matter.
C25_Invasion ==
    (Ticked /\ Len(prev.bullets) = 0) =>
        (s.gameOver <=>
            \E k \in 1..Len(prev.aliens.bodies) :
                prev.aliens.bodies[k].pos.y + prev.aliens.bodies[k].dims.height > CANVAS_SIZE)

\* a Tick on which moveAliens reverses the formation: the anchor's horizontal
\* velocity changes sign
Reversed ==
    /\ Ticked
    /\ Sign(s.aliens.movementPos.current.vel.x, 0)
           # Sign(prev.aliens.movementPos.current.vel.x, 0)

\* the anchor was moving right when the Tick began
Rightward == prev.aliens.movementPos.current.vel.x > 0

\* the alien of st with the id of b
sameAlien(st, b) == CHOOSE a \in {st.aliens.bodies[k] : k \in 1..Len(st.aliens.bodies)} : a.id = b.id

\* the right edge of the rightmost alien of st is at x, the left edge of the
\* leftmost one is at x
rightEdgeAt(st, x) ==
    /\ \A k \in 1..Len(st.aliens.bodies) :
          st.aliens.bodies[k].pos.x + st.aliens.bodies[k].dims.width <= x
    /\ \E k \in 1..Len(st.aliens.bodies) :
          st.aliens.bodies[k].pos.x + st.aliens.bodies[k].dims.width = x

leftEdgeAt(st, x) ==
    /\ \A k \in 1..Len(st.aliens.bodies) : st.aliens.bodies[k].pos.x >= x
    /\ \E k \in 1..Len(st.aliens.bodies) : st.aliens.bodies[k].pos.x = x

\* C26  Reversal clamp: on a reversal Tick every alien is shifted back toward
\* the bound it overshot (left after a rightward overshoot, right after a
\* leftward one), and after the Tick the formation sits on that bound:
\* its right edge on X_BOUNDS.right, or its left edge on X_BOUNDS.left.
C26_Clamp ==
    Reversed =>
        /\ \A k \in 1..Len(s.aliens.bodies) :
              IF Rightward
              THEN s.aliens.bodies[k].pos.x <= sameAlien(prev, s.aliens.bodies[k]).pos.x
              ELSE s.aliens.bodies[k].pos.x >= sameAlien(prev, s.aliens.bodies[k]).pos.x
        /\ IF Rightward THEN rightEdgeAt(s, X_BOUNDS.right) ELSE leftEdgeAt(s, X_BOUNDS.left)

\* C27  Formation reference update: after a reversal Tick movementPos.start is
\* the anchor's new position: start.x = current.pos.x.
C27_StartIsAnchor ==
    Reversed => s.aliens.movementPos.start.x = s.aliens.movementPos.current.pos.x

\* the anchor a Tick is given has reached an excursion bound: moveAliens
\* reverses the formation on that Tick
AtBound ==
    \/ prev.aliens.movementPos.current.pos.x
           <= prev.aliens.movementPos.start.x - aliensTopRightPosX
    \/ prev.aliens.movementPos.current.pos.x
           >= prev.aliens.movementPos.start.x + aliensTopRightPosX

\* b, a body after a Tick, against a, the same body before it: dropped by
\* MOVE_DIST.y with vel and acc negated
Dropped(a, b) ==
    /\ b.pos.y = a.pos.y + 35 * U /\ b.pos.ry = 0
    /\ b.vel.x = -a.vel.x /\ b.vel.y = -a.vel.y
    /\ b.acc.x = -a.acc.x /\ b.acc.y = -a.acc.y

\* the same, advanced by its velocity and acceleration, y unchanged
Marched(a, b) ==
    /\ b.pos.y = a.pos.y /\ b.pos.ry = a.pos.ry
    /\ b.pos.x = a.pos.x + a.vel.x
    /\ b.vel.x = a.vel.x + a.acc.x

\* C28  Drop and reverse: on a reversal Tick every alien and the anchor go
\* down by MOVE_DIST.y (35) exactly, vel and acc negated; on any other Tick
\* each alien keeps its y while pos.x and vel.x advance by vel.x and acc.x; so
\* no alien's y decreases.
C28_DropAndReverse ==
    Ticked =>
        /\ \A k \in 1..Len(s.aliens.bodies) :
              /\ IF AtBound THEN Dropped(sameAlien(prev, s.aliens.bodies[k]), s.aliens.bodies[k])
                 ELSE Marched(sameAlien(prev, s.aliens.bodies[k]), s.aliens.bodies[k])
              /\ s.aliens.bodies[k].pos.y >= sameAlien(prev, s.aliens.bodies[k]).pos.y
        /\ IF AtBound
           THEN Dropped(prev.aliens.movementPos.current, s.aliens.movementPos.current)
           ELSE Marched(prev.aliens.movementPos.current, s.aliens.movementPos.current)

\* a reversal at the left end of an excursion: the formation, moving left,
\* drops and turns right, velocities carrying the residue of an earlier rotation
C28_Witness ==
    /\ Ticked /\ AtBound
    /\ Len(s.aliens.bodies) = ROWS * COLS
    /\ prev.aliens.bodies[1].vel.x < 0 /\ s.aliens.bodies[1].vel.x > 0
    /\ s.aliens.bodies[1].pos.y = prev.aliens.bodies[1].pos.y + MOVE_DIST.y

\* |v|
Abs(v) == IF v < 0 THEN -v ELSE v

\* C29  Accelerating sweep: within a level the magnitude of each alien's
\* horizontal velocity never decreases from one Tick to the next: it grows by
\* accMagnitude on a Tick without reversal and is kept on a reversal Tick.
C29_Accelerating ==
    Ticked =>
        \A k \in 1..Len(s.aliens.bodies) :
            /\ Abs(s.aliens.bodies[k].vel.x) >= Abs(sameAlien(prev, s.aliens.bodies[k]).vel.x)
            /\ Abs(s.aliens.bodies[k].vel.x) =
                  Abs(sameAlien(prev, s.aliens.bodies[k]).vel.x)
                      + (IF AtBound THEN 0 ELSE prev.aliens.accMagnitude)

\* a Tick on which the formation, moving left after a reversal, gains speed
C29_Witness ==
    /\ Ticked /\ ~AtBound
    /\ Len(s.aliens.bodies) > 0
    /\ prev.aliens.bodies[1].vel.x < 0
    /\ s.aliens.bodies[1].vel.x = prev.aliens.bodies[1].vel.x - prev.aliens.accMagnitude

\* a is one of the aliens of the pairs
hitAlien(pairs, a) == \E k \in 1..Len(pairs) : pairs[k][2].id = a.id

\* C30  Alien kills: after a Tick, every alien that a bulletPlayer overlaps in
\* the interim state is gone from aliens.bodies and is in exit, and the bullet
\* is gone from bullets; every other alien of the interim state is still in
\* aliens.bodies, whatever the aliens' bullets overlap; and the score has grown
\* by ALIEN.SCORING (10) for each overlapping pair (bullet, alien), and by
\* UFO.POINTS for each pair (bullet, UFO).
C30_AlienKills ==
    Ticked =>
        /\ \A k \in 1..Len(alienHits(prev)) :
              /\ ~inArray(s.aliens.bodies, alienHits(prev)[k][2])
              /\ inArray(s.exit, alienHits(prev)[k][2])
              /\ ~inArray(s.bullets, alienHits(prev)[k][1])
        /\ \A k \in 1..Len(prev.aliens.bodies) :
              hitAlien(alienHits(prev), prev.aliens.bodies[k])
                  \/ inArray(s.aliens.bodies, prev.aliens.bodies[k])
        /\ s.score = prev.score + ALIEN_SCORING * Len(alienHits(prev))
                     + UFO_POINTS * Len(ufoHits(prev))

\* a bullet that leaves the gun between two rows of the formation and overlaps
\* an alien of each: two aliens removed, 20 points
C30_Witness ==
    /\ Ticked
    /\ Len(alienHits(prev)) = 2
    /\ Len(s.aliens.bodies) = Len(prev.aliens.bodies) - 2
    /\ s.score = prev.score + 2 * ALIEN_SCORING
    /\ ~hasPlayerBullet(s)

\* the bullets of the interim state that tick hands to handleCollisions
interimBullets(st) == moveBodies(SelectSeq(st.bullets, inBounds))

\* b overlaps an element of the array a
overlapsOneOf(b, a) == \E k \in 1..Len(a) : Overlap(b, a[k])

\* the interim bullets that overlap a shield and no hole, and those that
\* overlap a shield and a hole
bulletsOnShield(st) ==
    SelectSeq(interimBullets(st),
              LAMBDA b : overlapsOneOf(b, st.shields) /\ ~overlapsOneOf(b, st.holes))

bulletsInHole(st) ==
    SelectSeq(interimBullets(st),
              LAMBDA b : overlapsOneOf(b, st.shields) /\ overlapsOneOf(b, st.holes))

\* the new holes of s that sit at the tip of the bullet b
holesAt(b) ==
    { j \in (Len(prev.holes) + 1)..Len(s.holes) :
        /\ s.holes[j].viewType = "hole"
        /\ s.holes[j].dims = BULLET_HOLE_DIMS
        /\ s.holes[j].pos.x = b.pos.x + b.dims.width \div 2 - BULLET_HOLE_DIMS.width \div 2
        /\ s.holes[j].pos.y = b.pos.y + (IF b.vel.y > 0
                                         THEN BULLET_HOLE_DIMS.height - BULLET_HOLE_DIMS.height \div 2
                                         ELSE 0) }

\* holes and objCount grow by the number of bullets on a shield, each of which
\* has left bullets and has one new hole; the holes there were are kept
C31_NewHoles ==
    /\ \A k \in 1..Len(bulletsOnShield(prev)) :
          /\ ~inArray(s.bullets, bulletsOnShield(prev)[k])
          /\ Cardinality(holesAt(bulletsOnShield(prev)[k])) = 1
    /\ \A k \in 1..Len(bulletsInHole(prev)) : holesAt(bulletsInHole(prev)[k]) = {}
    /\ Len(s.holes) = Len(prev.holes) + Len(bulletsOnShield(prev))
    /\ s.objCount = prev.objCount + Len(bulletsOnShield(prev))
    /\ SubSeq(s.holes, 1, Len(prev.holes)) = prev.holes

\* C31 as stated  Shield hits and holes: on a Tick, a bullet that overlaps a
\* shield and no existing hole is removed from bullets and produces exactly
\* one new hole; a bullet that overlaps a shield and an existing hole stays in
\* bullets and produces no hole; holes and objCount grow by the number of new
\* holes, and no existing hole is removed.
C31_ShieldHits ==
    Ticked =>
        /\ C31_NewHoles
        /\ \A k \in 1..Len(bulletsInHole(prev)) : inArray(s.bullets, bulletsInHole(prev)[k])

\* b overlaps another bullet of the interim state or, shot by the player, an
\* alien of the formation as this Tick moves it
hitsElsewhere(st, b) ==
    \/ \E k \in 1..Len(interimBullets(st)) :
          interimBullets(st)[k].id # b.id /\ Overlap(b, interimBullets(st)[k])
    \/ b.viewType = "bulletPlayer" /\ overlapsOneOf(b, moveAliens(st.aliens).bodies)

\* C31  Shield hits and holes, amended: as stated, but a bullet that overlaps
\* a shield and an existing hole stays in bullets exactly when it overlaps no
\* other bullet and, if it is the player's, no alien on that Tick.
C31_ShieldHitsUnlessHit ==
    Ticked =>
        /\ C31_NewHoles
        /\ \A k \in 1..Len(bulletsInHole(prev)) :
              inArray(s.bullets, bulletsInHole(prev)[k])
                  <=> ~hitsElsewhere(prev, bulletsInHole(prev)[k])

\* a Tick on which the player's bullet is inside the hole of an earlier shot:
\* it stays in bullets, and holes and objCount are what they were
C31_Witness ==
    /\ Ticked
    /\ Len(prev.holes) > 0
    /\ Len(bulletsInHole(prev)) > 0
    /\ Len(s.bullets) = Len(prev.bullets)
    /\ s.holes = prev.holes
    /\ s.objCount = prev.objCount

\* the pairs of interim bullets with different ids that overlap
bulletPairs(st) ==
    { p \in (1..Len(interimBullets(st))) \X (1..Len(interimBullets(st))) :
        /\ interimBullets(st)[p[1]].id # interimBullets(st)[p[2]].id
        /\ Overlap(interimBullets(st)[p[1]], interimBullets(st)[p[2]]) }

\* what this Tick appended to exit
newExit == SubSeq(s.exit, Len(prev.exit) + 1, Len(s.exit))

\* b overlaps nothing that a bullet can collide with but itself
overlapsOnlyItself(st, b) ==
    /\ Overlap(b, b)
    /\ ~hitsElsewhere(st, b)
    /\ ~overlapsOneOf(b, st.shields)
    /\ ~overlapsOneOf(b, interimUfos(st))

\* C32  Bullet vs bullet: on a Tick, two bullets with different ids that
\* overlap in the interim state, whatever their kinds, are both removed from
\* bullets and both added to exit; a bullet that overlaps only itself is
\* neither removed nor added to exit.
C32_BulletsCollide ==
    Ticked =>
        /\ \A p \in bulletPairs(prev) :
              /\ ~inArray(s.bullets, interimBullets(prev)[p[1]])
              /\ ~inArray(s.bullets, interimBullets(prev)[p[2]])
              /\ inArray(newExit, interimBullets(prev)[p[1]])
              /\ inArray(newExit, interimBullets(prev)[p[2]])
        /\ \A k \in 1..Len(interimBullets(prev)) :
              overlapsOnlyItself(prev, interimBullets(prev)[k]) =>
                  /\ inArray(s.bullets, interimBullets(prev)[k])
                  /\ ~inArray(newExit, interimBullets(prev)[k])

\* a Tick on which the player's bullet and an alien's bullet overlap: both
\* have left bullets
C32_Witness ==
    /\ Ticked
    /\ \E p \in bulletPairs(prev) :
          /\ interimBullets(prev)[p[1]].viewType = "bulletPlayer"
          /\ interimBullets(prev)[p[2]].viewType = "bulletAlien"
    /\ Len(s.bullets) = Len(prev.bullets) - 2

\* the rectangle of o is strictly inside the canvas
StrictlyInside(o) ==
    \A v \in {o.pos.x, o.pos.x + o.dims.width, o.pos.y, o.pos.y + o.dims.height} :
        v > 0 /\ v < CANVAS_SIZE

\* the body o is an element of the array a
holds(a, o) == \E k \in 1..Len(a) : "id" \in DOMAIN a[k] /\ a[k] = o

\* o after one step of its motion
stepped(o) == [o EXCEPT !.pos = VecAdd(o.pos, o.vel), !.vel = VecAdd(o.vel, o.acc)]

\* C33  Out-of-bounds bullets: on a Tick, every bullet whose rectangle before
\* the Tick is not strictly inside the canvas is absent from bullets after it
\* and is appended to exit; every other bullet is advanced by pos += vel,
\* vel += acc before the collisions: it is in bullets so advanced, or it is
\* appended to exit so advanced.
C33_OutOfBounds ==
    Ticked =>
        \A k \in 1..Len(prev.bullets) :
            IF StrictlyInside(prev.bullets[k])
            THEN holds(s.bullets, stepped(prev.bullets[k]))
                     \/ holds(newExit, stepped(prev.bullets[k]))
            ELSE /\ ~inArray(s.bullets, prev.bullets[k])
                 /\ holds(newExit, prev.bullets[k])

\* a Tick that finds the player's bullet with its upper edge on y = 0 and an
\* alien's bullet with its lower edge past y = 600: both leave bullets for exit
C33_Witness ==
    /\ Ticked
    /\ \E k \in 1..Len(prev.bullets) :
          prev.bullets[k].viewType = "bulletPlayer" /\ prev.bullets[k].pos.y = 0
    /\ \E k \in 1..Len(prev.bullets) :
          /\ prev.bullets[k].viewType = "bulletAlien"
          /\ prev.bullets[k].pos.y + prev.bullets[k].dims.height > CANVAS_SIZE
    /\ s.bullets = <<>>
    /\ Len(newExit) = 2

\* an AlienShoot that reaches alienShoot: the formation is not empty and the
\* game is on
C34_AlienShootApplies ==
    /\ Reduced /\ ev.kind = "AlienShoot"
    /\ Len(prev.aliens.bodies) > 0 /\ ~prev.gameOver

\* 'bulletAlien' + objCount at attacker.pos + (35/2 - 6/2, 35), falling at
\* ALIEN_VEL, the attacker being the alien that the generator selects
C34_Bullet ==
    LET attacker == prev.aliens.bodies[attackerIndex(prev) + 1]
    IN  [id |-> <<"bulletAlien", prev.objCount>>, viewType |-> "bulletAlien",
         createTime |-> prev.time, dims |-> [width |-> 6 * U, height |-> 24 * U],
         pos |-> Vec(attacker.pos.x + (35 * U) \div 2 - 3 * U, attacker.pos.y + 35 * U),
         vel |-> Vec(0, 5 * U),
         acc |-> VecZero]

\* the state after an AlienShoot is the state before it but for bullets,
\* objCount and rng
C34_Effect ==
    C34_AlienShootApplies =>
        s = [prev EXCEPT !.bullets = prev.bullets \o <<C34_Bullet>>,
                         !.objCount = prev.objCount + 1,
                         !.rng = [state |-> RNGint(prev.rng.state)]]

\* C34  AlienShoot effect: for every state with a non-empty formation and
\* gameOver false, reducing AlienShoot gives a state (reduceState does not
\* throw) that differs from the one before by one bulletAlien appended, with
\* id 'bulletAlien' + objCount, at the selected alien's bottom-centre and with
\* velocity (0, ALIEN_VEL), by objCount + 1 and by rng.next(), all other
\* fields being unchanged.
C34_AlienShoot == ~crashed /\ C34_Effect

\* the document has an element with the id of the body o
drawn(o) == \E v \in view : v.id = o.id

\* the bodies that updateView draws
drawnBodies(st) == st.bullets \o st.holes \o st.aliens.bodies \o st.ufo

\* every body of these collections has an element
C35_LiveDrawn == \A k \in 1..Len(drawnBodies(s)) : drawn(drawnBodies(s)[k])

\* no body of exit has one
C35_ExitErased == \A k \in 1..Len(s.exit) : "id" \in DOMAIN s.exit[k] => ~drawn(s.exit[k])

\* C35  View consistency: after updateView has processed the state that a
\* reduction produced, the document has an element for every body of bullets,
\* holes, aliens.bodies and ufo, and none for any body of exit.
C35_ViewConsistent == Reduced => (C35_LiveDrawn /\ C35_ExitErased)

\* the bullets of st that are the player's
playerBulletsOf(st) == SelectSeq(st.bullets, LAMBDA b : b.viewType = "bulletPlayer")

\* C36  At most one player bullet: in every reachable state, whatever the
\* order of the events, bullets holds at most one body of kind bulletPlayer.
C36_OnePlayerBullet == Len(playerBulletsOf(s)) <= 1

\* a Shoot reduced while the player's bullet and an alien's bullet are in
\* flight, the alien's first in bullets: the player still has one bullet
C36_Witness ==
    /\ Reduced /\ ev.kind = "Shoot"
    /\ ~prev.gameOver /\ Len(prev.aliens.bodies) > 0
    /\ Len(playerBulletsOf(prev)) = 1
    /\ prev.bullets[1].viewType = "bulletAlien"
    /\ Len(playerBulletsOf(s)) = 1

\* C37  Player bullet is eventually released: while the Ticks keep coming
\* (the stream has not ended on a throw), every state with a bulletPlayer in
\* bullets is followed by a state with none or with gameOver true.
C37_Released ==
    (Len(playerBulletsOf(s)) > 0)
        ~> (Len(playerBulletsOf(s)) = 0 \/ s.gameOver \/ crashed)

\* a bullet shot in this run that met nothing for 102 Ticks and is removed by
\* the Tick that finds its upper edge on y = 0, the game being on
C37_Witness ==
    /\ Reduced /\ ev.kind = "Tick"
    /\ steps > 102
    /\ Len(playerBulletsOf(prev)) = 1
    /\ playerBulletsOf(prev)[1].pos.y = 0
    /\ playerBulletsOf(prev)[1].id[2] >= prev.objCount - MaxEvents
    /\ Len(playerBulletsOf(s)) = 0
    /\ ~s.gameOver

\* the level is over: the game is, or the formation is empty
levelOver == s.gameOver \/ Len(s.aliens.bodies) = 0

\* C38  Every level ends: while the Ticks keep coming and no Restart is
\* issued, every state is followed by a state with gameOver true or with an
\* empty formation.
C38_LevelEnds == (~levelOver) ~> levelOver

\* the Tick on which a whole formation of the second level, left alone for
\* nearly 4000 Ticks, is found outside the canvas: the game is over
C38_Witness ==
    /\ Reduced /\ ev.kind = "Tick"
    /\ ~prev.gameOver
    /\ s.gameOver
    /\ Len(s.aliens.bodies) = ROWS * COLS
    /\ s.aliens.accMagnitude = ALIEN_ACC_SCALE * ALIEN_INITIAL_ACC
    /\ steps > 3900

====
